---- MODULE Spec2Model ----
(***************************************************************************)
(* Verification model of the command-center orchestrator's gating core:    *)
(* the permission matrix (allowlist.js), the state store (pace.js), the    *)
(* audit log (audit.js), the budget tracker (budget.js), the anomaly       *)
(* detector (anomaly.js), the dispatch gateway (openclaw.js), the sleep    *)
(* scheduler (sleep-scheduler.js) and the proposal store (proposals.js).   *)
(*                                                                         *)
(* Conventions of the model:                                               *)
(*  - money is counted in cents (0.01 dollars = 1);                        *)
(*  - time is counted in whole hours since the store was created; the      *)
(*    SQL windows "datetime('now','-1 hour')" and "'-24 hours'" compare    *)
(*    with >=, so a row aged exactly one window length is still inside;    *)
(*  - JS null is the string NULL;                                          *)
(*  - free-text audit details are tuples whose first element is the        *)
(*    literal prefix of the text the code writes.                          *)
(***************************************************************************)
EXTENDS Integers, Sequences, FiniteSets, TLC

VARIABLES
    system_state,   \* table system_state: key -> value
    audit_log,      \* table audit_log, in id order
    api_usage,      \* table api_usage, in id order
    now,            \* the wall clock, in hours
    pc,             \* per dispatch call: "idle" (not made yet), "calling" (awaiting
                    \*   callAgent), "returned"
    task,           \* per dispatch call: the task argument
    seen,           \* per dispatch call: the locals pace, mode, targetNode, agentName
    hist,           \* per dispatch call: what the call has done so far, in order
    result,         \* per dispatch call: the value the promise resolved to
    allowQ,         \* the last direct call of isAllowed and what it returned
    proposals,      \* table proposals, in id order
    propQ,          \* the last call of the proposal store, or of its resolve route,
                    \*   and what came back
    tickQ,          \* the last call of tick and what it returned
    windowQ,        \* the last direct call of isInSleepWindow and what it returned
    dossier_entries, \* table dossier_entries, in id order
    httpQ,          \* the last answer the caller got: the HTTP response of a
                    \*   state-changing route, or the value a query returned
    sandboxRuns,    \* per POST /sandbox/run request: where its handler stands, the
                    \*   proposal it picked and what it answered
    watchdog,       \* the watchdog's loop: fail_count, the heartbeat checks made so
                    \*   far and the checks after which it sent the stop signal
    schedulerInterval \* the timer startScheduler returns: "none" before the server
                    \*   is created, "running", "cleared" after close; the time of
                    \*   its last tick and the number of ticks it has made

vars == <<system_state, audit_log, api_usage, now, pc, task, seen, hist, result,
          allowQ, proposals, propQ, tickQ, windowQ, dossier_entries, httpQ,
          sandboxRuns, watchdog, schedulerInterval>>

dispatchVars == <<pc, task, seen, hist, result>>
proposalVars == <<proposals, propQ>>
schedVars == <<tickQ, windowQ>>
loopVars == <<sandboxRuns, watchdog, schedulerInterval>>
sideVars == <<dossier_entries, httpQ, loopVars>>

----------------------------------------------------------------------------
(* Bounds of the model *)

\* dispatch calls made in one run (they may overlap)
NumCalls == 2
\* rows the audit log may hold
MaxAudit == 4
\* rows the usage table may hold
MaxUsage == 2
\* the clock stops advancing here
MaxTime == 2
\* rows the proposals table may hold
MaxProposals == 2
\* days the clock may jump ahead in whole-day steps
MaxDays == 8
\* rows the dossier table may hold
MaxEntries == 3
\* ticks the running scheduler makes
MaxTicks == 3
\* heartbeat checks the watchdog makes
MaxChecks == 6
Calls == 1..NumCalls

----------------------------------------------------------------------------
(* Program constants *)

NULL == "NULL"

VALID_PACES == {"full", "slow", "pause", "stop"}
VALID_MODES == {"awake", "sleep"}

SLEEP_ALLOWED == {"scan", "research", "draft", "test", "maintenance", "analyze", "sandbox"}

\* mutant of PAUSE_ALLOWED: pause lets research through as well
PAUSE_ALLOWED_wide == {"scan", "research"}

PAUSE_ALLOWED == {"scan"}

\* db.js seeds: budget_ceiling '50' (dollars), budget_cost_per_call '0.01';
\* money is counted in cents
DefaultCeiling == 5000
DefaultCostPerCall == 1
DefaultMaxCalls == 20
DefaultMaxFailures == 5

\* the rolling windows of anomaly.js and budget.js, in hours
HourWindow == 1
DayWindow == 24

----------------------------------------------------------------------------
(* Permission matrix: allowlist.js *)

\* mutant of isAllowed: the stop check comes after the sleep check
isAllowed_stopAfterSleep(m, action, p) ==
    IF m = "sleep" THEN action \in SLEEP_ALLOWED
    ELSE IF p = "stop" THEN FALSE
    ELSE IF p = "pause" THEN action \in PAUSE_ALLOWED
    ELSE TRUE

isAllowed(m, action, p) ==
    IF p = "stop" THEN FALSE
    ELSE IF m = "sleep" THEN action \in SLEEP_ALLOWED
    ELSE IF p = "pause" THEN action \in PAUSE_ALLOWED
    ELSE TRUE

----------------------------------------------------------------------------
(* State store: pace.js *)

getPace == system_state.pace
getMode == system_state.mode

\* setPace and setMode throw when VALID_PACES / VALID_MODES does not include
\* the value
setPaceThrows(p) == p \notin VALID_PACES
setModeThrows(m) == m \notin VALID_MODES

\* the Error setPace throws:
\* `Invalid pace: "${pace}". Must be one of: ${VALID_PACES.join(', ')}`
setPaceError(p) == <<"Invalid pace:", p, "Must be one of:", VALID_PACES>>

\* the Error setMode throws
setModeError(m) == <<"Invalid mode:", m, "Must be one of:", VALID_MODES>>

\* mutant of setPace: an unknown value is clamped to pause instead of refused
setPace_clamp(st, p) ==
    IF p \in VALID_PACES THEN [st EXCEPT !.pace = p] ELSE [st EXCEPT !.pace = "pause"]

\* setPace(db, pace): throws on a value outside VALID_PACES (no update)
setPace(st, p) ==
    IF p \in VALID_PACES THEN [st EXCEPT !.pace = p] ELSE st

\* setMode(db, mode): throws on a value outside VALID_MODES (no update)
setMode(st, m) ==
    IF m \in VALID_MODES THEN [st EXCEPT !.mode = m] ELSE st

----------------------------------------------------------------------------
(* Audit log: audit.js *)

\* mutant of logAction: the new row takes the id of the last row
logAction_reuseId(log, agent, action, domain, detail, blocked) ==
    Append(log, [id        |-> IF log = <<>> THEN 1 ELSE log[Len(log)].id,
                 agent     |-> agent,
                 action    |-> action,
                 domain    |-> domain,
                 detail    |-> detail,
                 blocked   |-> IF blocked THEN 1 ELSE 0])

\* logAction(db, {agent, action, domain, detail = null, blocked = false}):
\* one INSERT; id is AUTOINCREMENT. The timestamp column, which no code of
\* the core reads, is left out of the rows.
logAction(log, agent, action, domain, detail, blocked) ==
    Append(log, [id        |-> Len(log) + 1,
                 agent     |-> agent,
                 action    |-> action,
                 domain    |-> domain,
                 detail    |-> detail,
                 blocked   |-> IF blocked THEN 1 ELSE 0])

----------------------------------------------------------------------------
(* Budget tracker: budget.js *)

\* A JavaScript number handed to a setter: NaN (typeof NaN is 'number'), or
\* the value v + 1/2 if half, else v. Number(x) of the HTTP layer yields NaN
\* for a body value that is not numeric. Budget values are in cents.
Num(v) == [nan |-> FALSE, v |-> v, half |-> FALSE]
Half(v) == [nan |-> FALSE, v |-> v, half |-> TRUE]
NaN == [nan |-> TRUE, v |-> 0, half |-> FALSE]

\* twice the value of a number that is not NaN
Twice(a) == 2 * a.v + (IF a.half THEN 1 ELSE 0)

\* the operators <, <=, -, Math.max and Number.isInteger of JavaScript: a
\* comparison with NaN is false, arithmetic with NaN is NaN
Lt(a, b) == ~a.nan /\ ~b.nan /\ Twice(a) < Twice(b)
Le(a, b) == ~a.nan /\ ~b.nan /\ Twice(a) <= Twice(b)
Minus(a, b) ==
    IF a.nan \/ b.nan THEN NaN
    ELSE LET d == Twice(a) - Twice(b)
         IN  [nan |-> FALSE, v |-> (d - (d % 2)) \div 2, half |-> d % 2 = 1]
MathMax(a, b) == IF a.nan \/ b.nan THEN NaN ELSE IF Twice(a) >= Twice(b) THEN a ELSE b
isInteger(a) == ~a.nan /\ ~a.half

\* getCeiling(db): parseFloat of the stored text; String(c) of setCeiling and
\* parseFloat give back the same number, 'NaN' gives back NaN
getCeiling == system_state.budget_ceiling

\* getCostPerCall(db): parseFloat of the stored text
getCostPerCall == system_state.budget_cost_per_call

\* recordUsage(db, {agent, domain, node, cost, durationMs}): one INSERT,
\* created_at defaults to datetime('now')
recordUsage(usage, t, agent, domain, node, cost) ==
    Append(usage, [agent      |-> agent,
                   domain     |-> domain,
                   node       |-> IF node = "" THEN "pi1" ELSE node,
                   cost       |-> cost,
                   created_at |-> t])

RECURSIVE SumCost(_)
SumCost(rows) ==
    IF rows = <<>> THEN 0 ELSE rows[1].cost + SumCost(Tail(rows))

\* mutant of getUsage24h: the WHERE clause is left out
getUsage24h_allTime ==
    [totalCost |-> SumCost(api_usage), callCount |-> Len(api_usage)]

\* SELECT COALESCE(SUM(cost),0), COUNT(*) FROM api_usage
\*  WHERE created_at >= datetime('now','-24 hours')
getUsage24h ==
    LET rows == SelectSeq(api_usage, LAMBDA r : r.created_at >= now - DayWindow)
    IN  [totalCost |-> SumCost(rows), callCount |-> Len(rows)]

\* mutant of isWithinBudget: spend equal to the ceiling still passes
isWithinBudget_inclusive == Le(Num(getUsage24h.totalCost), getCeiling)

isWithinBudget == Lt(Num(getUsage24h.totalCost), getCeiling)

\* getBudgetStatus(db)
getBudgetStatus ==
    [ceiling      |-> getCeiling,
     spent        |-> Num(getUsage24h.totalCost),
     remaining    |-> MathMax(Num(0), Minus(getCeiling, Num(getUsage24h.totalCost))),
     callCount    |-> getUsage24h.callCount,
     costPerCall  |-> getCostPerCall,
     withinBudget |-> Lt(Num(getUsage24h.totalCost), getCeiling)]

\* setCeiling(db, ceiling): throws if typeof ceiling !== 'number' or
\* ceiling <= 0 (no update), else stores String(ceiling)
setCeilingThrows(c) == Le(c, Num(0))

setCeiling(st, c) ==
    IF setCeilingThrows(c) THEN st ELSE [st EXCEPT !.budget_ceiling = c]

\* setCostPerCall(db, cost): throws if typeof cost !== 'number' or cost < 0
setCostPerCallThrows(c) == Lt(c, Num(0))

setCostPerCall(st, c) ==
    IF setCostPerCallThrows(c) THEN st ELSE [st EXCEPT !.budget_cost_per_call = c]

----------------------------------------------------------------------------
(* Anomaly detector: anomaly.js *)

getAnomalyThresholds ==
    [maxCallsPerAgentPerHour |-> system_state.max_calls_per_agent_per_hour,
     maxConsecutiveFailures  |-> system_state.max_consecutive_failures]

VALID_THRESHOLDS == {"max_calls_per_agent_per_hour", "max_consecutive_failures"}

\* setAnomalyThreshold(db, key, value): throws on an unknown key, and on a
\* value with typeof value !== 'number' || value <= 0 || !Number.isInteger(value)
setAnomalyThresholdThrows(key, value) ==
    \/ key \notin VALID_THRESHOLDS
    \/ Le(value, Num(0))
    \/ ~isInteger(value)

\* mutant of setAnomalyThreshold: the integer test is left out
setAnomalyThreshold_anyNumber(st, key, value) ==
    IF key \notin VALID_THRESHOLDS \/ Le(value, Num(0)) THEN st
    ELSE [st EXCEPT ![key] = value.v]

\* stores String(value); getAnomalyThresholds reads it back with parseInt,
\* which gives back the integer
setAnomalyThreshold(st, key, value) ==
    IF setAnomalyThresholdThrows(key, value) THEN st
    ELSE [st EXCEPT ![key] = value.v]

\* Every agent name of the model, in the order SQLite's GROUP BY agent emits
\* its groups (ascending, binary collation).
SortedAgents ==
    <<"anomaly-detector", "custom-agent", "openclaw:scan@pi1", "rogue-agent">>

CountRows(rows, a) == Len(SelectSeq(rows, LAMBDA r : r.agent = a))

\* mutant of agentCalls: HAVING cnt >= ? instead of cnt > ?
agentCalls_inclusive ==
    LET rows   == SelectSeq(api_usage, LAMBDA r : r.created_at >= now - HourWindow)
        thr    == getAnomalyThresholds.maxCallsPerAgentPerHour
        having == SelectSeq(SortedAgents, LAMBDA a : CountRows(rows, a) >= thr)
    IN  [i \in 1..Len(having) |->
            [type   |-> "excessive_calls",
             agent  |-> having[i],
             detail |-> <<CountRows(rows, having[i]), thr>>]]

\* Check 1: SELECT agent, COUNT(*) AS cnt FROM api_usage
\*   WHERE created_at >= datetime('now','-1 hour') GROUP BY agent HAVING cnt > ?
agentCalls ==
    LET rows   == SelectSeq(api_usage, LAMBDA r : r.created_at >= now - HourWindow)
        thr    == getAnomalyThresholds.maxCallsPerAgentPerHour
        groups == SelectSeq(SortedAgents, LAMBDA a : CountRows(rows, a) > 0)
        having == SelectSeq(groups, LAMBDA a : CountRows(rows, a) > thr)
    IN  [i \in 1..Len(having) |->
            [type   |-> "excessive_calls",
             agent  |-> having[i],
             detail |-> <<CountRows(rows, having[i]), thr>>]]

\* mutant of recentBlocked: HAVING cnt > ? instead of cnt >= ?
recentBlocked_strict ==
    LET thr     == getAnomalyThresholds.maxConsecutiveFailures
        blocked == SelectSeq(audit_log, LAMBDA e : e.blocked = 1)
        rn(i)   == Cardinality({j \in i..Len(blocked) : blocked[j].agent = blocked[i].agent})
        kept    == {i \in 1..Len(blocked) : rn(i) <= thr}
        cnt(a)  == Cardinality({i \in kept : blocked[i].agent = a})
        having  == SelectSeq(SortedAgents, LAMBDA a : cnt(a) > thr)
    IN  [i \in 1..Len(having) |->
            [type   |-> "consecutive_failures",
             agent  |-> having[i],
             detail |-> <<cnt(having[i]), thr>>]]

\* Check 2: SELECT agent, COUNT(*) AS cnt FROM (SELECT agent, blocked,
\*   ROW_NUMBER() OVER (PARTITION BY agent ORDER BY id DESC) AS rn
\*   FROM audit_log WHERE blocked = 1) WHERE rn <= ? GROUP BY agent HAVING cnt >= ?
recentBlocked ==
    LET thr     == getAnomalyThresholds.maxConsecutiveFailures
        blocked == SelectSeq(audit_log, LAMBDA e : e.blocked = 1)
        \* rn of row i: its rank among its agent's blocked rows, newest first
        rn(i)   == Cardinality({j \in i..Len(blocked) : blocked[j].agent = blocked[i].agent})
        kept    == {i \in 1..Len(blocked) : rn(i) <= thr}
        cnt(a)  == Cardinality({i \in kept : blocked[i].agent = a})
        groups  == SelectSeq(SortedAgents, LAMBDA a : cnt(a) > 0)
        having  == SelectSeq(groups, LAMBDA a : cnt(a) >= thr)
    IN  [i \in 1..Len(having) |->
            [type   |-> "consecutive_failures",
             agent  |-> having[i],
             detail |-> <<cnt(having[i]), thr>>]]

\* the anomalies array, in push order
detectAnomalies == agentCalls \o recentBlocked

\* for (const a of anomalies) logAction(db, {agent: 'anomaly-detector', ...})
RECURSIVE logAnomalies(_, _)
logAnomalies(log, anomalies) ==
    IF anomalies = <<>> THEN log
    ELSE logAnomalies(
            logAction(log, "anomaly-detector", "auto_pause", "system",
                      <<Head(anomalies).type, Head(anomalies).agent>>
                          \o Head(anomalies).detail, FALSE),
            Tail(anomalies))

\* The audit log of the model holds MaxAudit rows: an operation starts only
\* when its rows fit beside the completion row of every call awaiting its agent.
Room(n) ==
    Len(audit_log) + Cardinality({p \in Calls : pc[p] = "calling"}) + n <= MaxAudit

\* mutant of checkAnomalies: the auto-pause escalates to stop
checkAnomalies_stop ==
    LET anomalies == detectAnomalies
    IN  /\ Room(Len(anomalies))
        /\ IF Len(anomalies) > 0
           THEN /\ system_state' = setPace(system_state, "stop")
                /\ audit_log' = logAnomalies(audit_log, anomalies)
           ELSE UNCHANGED <<system_state, audit_log>>
        /\ UNCHANGED <<api_usage, now, dispatchVars, allowQ, sideVars, proposalVars, schedVars>>

\* mutant of checkAnomalies: the auto-pause also puts the system to sleep
checkAnomalies_sleep ==
    LET anomalies == detectAnomalies
    IN  /\ Room(Len(anomalies))
        /\ IF Len(anomalies) > 0
           THEN /\ system_state' = setMode(setPace(system_state, "pause"), "sleep")
                /\ audit_log' = logAnomalies(audit_log, anomalies)
           ELSE UNCHANGED <<system_state, audit_log>>
        /\ UNCHANGED <<api_usage, now, dispatchVars, allowQ, sideVars, proposalVars, schedVars>>

\* checkAnomalies(db): its effect on the store
checkAnomalies ==
    LET anomalies == detectAnomalies
    IN  /\ Room(Len(anomalies))
        /\ IF Len(anomalies) > 0
           THEN /\ system_state' = setPace(system_state, "pause")
                /\ audit_log' = logAnomalies(audit_log, anomalies)
           ELSE UNCHANGED <<system_state, audit_log>>
        /\ UNCHANGED <<api_usage, now, dispatchVars, allowQ, sideVars, proposalVars, schedVars>>

\* checkAnomalies(db): the value it returns, { anomalies, autoPaused }
checkAnomaliesReturn ==
    [anomalies  |-> detectAnomalies,
     autoPaused |-> IF Len(detectAnomalies) > 0 THEN TRUE ELSE FALSE]

----------------------------------------------------------------------------
(* Dispatch gateway: openclaw.js *)

\* the tasks the model's callers dispatch (agentName, node: "" when not given)
Tasks ==
    { [action |-> "scan",   domain |-> "site", agentName |-> "", node |-> ""],
      [action |-> "deploy", domain |-> "site", agentName |-> "custom-agent",
       node |-> "mac-mini"] }

\* the task careerResearchTask builds (agent-tasks.js)
ResearchTask ==
    [action |-> "research", domain |-> "career", agentName |-> "agent:career-researcher",
     node |-> ""]

NoTask == [action |-> "", domain |-> "", agentName |-> "", node |-> ""]
NoLocals == [pace |-> "", mode |-> "", targetNode |-> "", agentName |-> ""]
NoResult == [pending |-> TRUE]

\* what the external agent process can do: answer, or make execFile reject
\* (a non-zero exit, the timeout killing the process, a spawn or ssh failure:
\* one catch block handles them all, they differ in err.message only)
AgentOutcomes == {"answer", "reject"}

\* mutant of callAgent: the catch block reports the failure as a success
callAgent_swallow(node, outcome) ==
    [ok |-> TRUE, response |-> NULL, error |-> NULL, node |-> node]

\* callAgent(message, options): never throws; the catch turns every failure
\* into {ok: false, response: null, error, durationMs, node}
callAgent(node, outcome) ==
    IF outcome = "answer"
    THEN [ok |-> TRUE, response |-> "agent text", error |-> NULL, node |-> node]
    ELSE [ok |-> FALSE, response |-> NULL,
          error |-> "Command failed",
          node |-> node]

Event(ev, id) == [ev |-> ev, id |-> id]

\* mutant of dispatchLocals: the pace is the one an earlier call has read
dispatchLocals_cached(t) ==
    LET targetNode == IF t.node = "" THEN "pi1" ELSE t.node
    IN  [pace       |-> IF seen[1].pace # "" THEN seen[1].pace ELSE getPace,
         mode       |-> getMode,
         targetNode |-> targetNode,
         agentName  |-> IF t.agentName = ""
                        THEN "openclaw:" \o t.action \o "@" \o targetNode
                        ELSE t.agentName]

\* the locals of dispatch: lines 145-148. The three awaited imports come
\* before these reads; from the reads to the execFile inside callAgent the
\* code runs without an await.
dispatchLocals(t) ==
    LET targetNode == IF t.node = "" THEN "pi1" ELSE t.node
    IN  [pace       |-> getPace,
         mode       |-> getMode,
         targetNode |-> targetNode,
         agentName  |-> IF t.agentName = ""
                        THEN "openclaw:" \o t.action \o "@" \o targetNode
                        ELSE t.agentName]

\* mutant of dispatchBlocked: the denial is returned but not written to the log
dispatchBlocked_silent(p, t, l) ==
    /\ audit_log' = audit_log
    /\ hist' = [hist EXCEPT ![p] = <<>>]
    /\ result' = [result EXCEPT ![p] =
                    [ok |-> FALSE, allowed |-> FALSE, response |-> NULL,
                     error |-> "Blocked by allowlist"]]
    /\ pc' = [pc EXCEPT ![p] = "returned"]

\* the denied branch: lines 150-159
dispatchBlocked(p, t, l) ==
    /\ audit_log' = logAction(audit_log, l.agentName, t.action, t.domain,
                              <<"Blocked by allowlist", l.mode, l.pace>>, TRUE)
    /\ hist' = [hist EXCEPT ![p] = <<Event("log", Len(audit_log) + 1)>>]
    /\ result' = [result EXCEPT ![p] =
                    [ok |-> FALSE, allowed |-> FALSE, response |-> NULL,
                     error |-> "Blocked by allowlist"]]
    /\ pc' = [pc EXCEPT ![p] = "returned"]

\* mutant of dispatchAllowed: the agent is invoked before anything is logged
dispatchAllowed_unlogged(p, t, l) ==
    /\ audit_log' = audit_log
    /\ hist' = [hist EXCEPT ![p] = <<Event("callAgent", 0)>>]
    /\ result' = result
    /\ pc' = [pc EXCEPT ![p] = "calling"]

\* the allowed branch up to the await of callAgent: lines 161-168
dispatchAllowed(p, t, l) ==
    /\ audit_log' = logAction(audit_log, l.agentName, t.action, t.domain,
                              <<"Dispatching to", l.targetNode>>, FALSE)
    /\ hist' = [hist EXCEPT ![p] = <<Event("log", Len(audit_log) + 1),
                                     Event("callAgent", 0)>>]
    /\ result' = result
    /\ pc' = [pc EXCEPT ![p] = "calling"]

\* dispatch(db, task) up to its return or to the await of callAgent.
\* The calls of a run are numbered in the order they are made.
dispatchStart(p, t) ==
    LET l == dispatchLocals(t)
    IN  /\ pc[p] = "idle"
        /\ \A q \in Calls : q < p => pc[q] # "idle"
        /\ Room(IF isAllowed(l.mode, t.action, l.pace) THEN 2 ELSE 1)
        /\ task' = [task EXCEPT ![p] = t]
        /\ seen' = [seen EXCEPT ![p] = l]
        /\ IF ~isAllowed(l.mode, t.action, l.pace)
           THEN dispatchBlocked(p, t, l)
           ELSE dispatchAllowed(p, t, l)
        /\ UNCHANGED <<system_state, api_usage, now, allowQ, sideVars, proposalVars, schedVars>>

\* dispatch(db, task) from the moment callAgent's promise resolves: lines 168-181
dispatchResume(p, outcome) ==
    LET r == callAgent(IF task[p].node = "" THEN "pi1" ELSE task[p].node, outcome)
    IN  /\ pc[p] = "calling"
        /\ audit_log' = logAction(audit_log, seen[p].agentName, task[p].action,
                                  task[p].domain,
                                  IF r.ok THEN <<"Completed on", r.node>>
                                          ELSE <<"Failed on", r.node, r.error>>,
                                  FALSE)
        /\ hist' = [hist EXCEPT ![p] = @ \o <<Event(outcome, 0),
                                              Event("log", Len(audit_log) + 1)>>]
        /\ result' = [result EXCEPT ![p] =
                        [ok |-> r.ok, response |-> r.response, error |-> r.error,
                         node |-> r.node, allowed |-> TRUE]]
        /\ pc' = [pc EXCEPT ![p] = "returned"]
        /\ UNCHANGED <<system_state, api_usage, now, task, seen, allowQ, sideVars, proposalVars, schedVars>>

----------------------------------------------------------------------------
(* Sleep scheduler: sleep-scheduler.js *)

\* A time string: fmt says whether it matches /^\d{2}:\d{2}$/, h and m are the
\* numbers split(':').map(Number) yields from it.
HHMM(h, m) == [fmt |-> TRUE, h |-> h, m |-> m]

\* a string that is no time at all ('abc', '7pm')
NotATime == [fmt |-> FALSE, h |-> 0, m |-> 0]

toMinutes(timeStr) == timeStr.h * 60 + timeStr.m

isValidTime(str) == str.fmt /\ toMinutes(str) >= 0 /\ toMinutes(str) < 1440

getSchedule ==
    [sleepStart |-> system_state.sleep_start, sleepEnd |-> system_state.sleep_end]

\* setSchedule(db, sleepStart, sleepEnd): throws before any write when either
\* string is not a valid time
setSchedule(st, sleepStart, sleepEnd) ==
    IF ~isValidTime(sleepStart) THEN st
    ELSE IF ~isValidTime(sleepEnd) THEN st
    ELSE [st EXCEPT !.sleep_start = sleepStart, !.sleep_end = sleepEnd]

\* mutant of isInSleepWindow: the end minute belongs to the window
isInSleepWindow_endInclusive(timeStr, sleepStart, sleepEnd) ==
    LET t     == toMinutes(timeStr)
        start == toMinutes(sleepStart)
        end   == toMinutes(sleepEnd)
    IN  IF start <= end
        THEN t >= start /\ t <= end
        ELSE t >= start \/ t <= end

isInSleepWindow(timeStr, sleepStart, sleepEnd) ==
    LET t     == toMinutes(timeStr)
        start == toMinutes(sleepStart)
        end   == toMinutes(sleepEnd)
    IN  IF start <= end
        THEN t >= start /\ t < end
        ELSE t >= start \/ t < end

\* mutant of tick: the transition is made but not written to the audit log
tick_silent(st, log, d) ==
    LET sched       == [sleepStart |-> st.sleep_start, sleepEnd |-> st.sleep_end]
        timeStr     == HHMM(d.hours, d.minutes)
        shouldSleep == isInSleepWindow(timeStr, sched.sleepStart, sched.sleepEnd)
    IN  IF shouldSleep /\ st.mode = "awake"
        THEN [state |-> setMode(st, "sleep"), log |-> log, ret |-> TRUE]
        ELSE IF ~shouldSleep /\ st.mode = "sleep"
        THEN [state |-> setMode(st, "awake"), log |-> log, ret |-> TRUE]
        ELSE [state |-> st, log |-> log, ret |-> FALSE]

\* mutant of tick: the scheduler puts the system to sleep but never wakes it
tick_noWake(st, log, d) ==
    LET sched       == [sleepStart |-> st.sleep_start, sleepEnd |-> st.sleep_end]
        timeStr     == HHMM(d.hours, d.minutes)
        shouldSleep == isInSleepWindow(timeStr, sched.sleepStart, sched.sleepEnd)
    IN  IF shouldSleep /\ st.mode = "awake"
        THEN [state |-> setMode(st, "sleep"),
              log   |-> logAction(log, "sleep-scheduler", "set_mode", "system",
                                  <<"Auto-transition to sleep at", timeStr,
                                    sched.sleepStart, sched.sleepEnd>>, FALSE),
              ret   |-> TRUE]
        ELSE [state |-> st, log |-> log, ret |-> FALSE]

\* mutant of tick: the current mode is not looked at before the transition
tick_unguarded(st, log, d) ==
    LET sched       == [sleepStart |-> st.sleep_start, sleepEnd |-> st.sleep_end]
        timeStr     == HHMM(d.hours, d.minutes)
        shouldSleep == isInSleepWindow(timeStr, sched.sleepStart, sched.sleepEnd)
    IN  IF shouldSleep
        THEN [state |-> setMode(st, "sleep"),
              log   |-> logAction(log, "sleep-scheduler", "set_mode", "system",
                                  <<"Auto-transition to sleep at", timeStr,
                                    sched.sleepStart, sched.sleepEnd>>, FALSE),
              ret   |-> TRUE]
        ELSE IF st.mode = "sleep"
        THEN [state |-> setMode(st, "awake"),
              log   |-> logAction(log, "sleep-scheduler", "set_mode", "system",
                                  <<"Auto-transition to awake at", timeStr,
                                    sched.sleepStart, sched.sleepEnd>>, FALSE),
              ret   |-> TRUE]
        ELSE [state |-> st, log |-> log, ret |-> FALSE]

\* tick(db, now) on the store (st, log), d being the Date now: the store it
\* leaves and the value it returns
tick(st, log, d) ==
    LET sched       == [sleepStart |-> st.sleep_start, sleepEnd |-> st.sleep_end]
        timeStr     == HHMM(d.hours, d.minutes)
        currentMode == st.mode
        shouldSleep == isInSleepWindow(timeStr, sched.sleepStart, sched.sleepEnd)
    IN  IF shouldSleep /\ currentMode = "awake"
        THEN [state |-> setMode(st, "sleep"),
              log   |-> logAction(log, "sleep-scheduler", "set_mode", "system",
                                  <<"Auto-transition to sleep at", timeStr,
                                    sched.sleepStart, sched.sleepEnd>>, FALSE),
              ret   |-> TRUE]
        ELSE IF ~shouldSleep /\ currentMode = "sleep"
        THEN [state |-> setMode(st, "awake"),
              log   |-> logAction(log, "sleep-scheduler", "set_mode", "system",
                                  <<"Auto-transition to awake at", timeStr,
                                    sched.sleepStart, sched.sleepEnd>>, FALSE),
              ret   |-> TRUE]
        ELSE [state |-> st, log |-> log, ret |-> FALSE]

----------------------------------------------------------------------------
(* Proposal store: proposals.js *)

\* mutant of VALID_RESOLUTIONS: pending is accepted as a resolution
VALID_RESOLUTIONS_withPending ==
    {"greenlit", "modified", "rejected", "shelved", "expired", "shipped", "pending"}

VALID_RESOLUTIONS == {"greenlit", "modified", "rejected", "shelved", "expired", "shipped"}

\* SQLite's LOWER() on the titles of the model
LOWER(title) ==
    CASE title = "Add favicon" -> "add favicon"
      [] title = "Add Favicon" -> "add favicon"
      [] title = "Fix SEO"     -> "fix seo"
      [] OTHER                 -> title

\* mutant of findDuplicate: the status of the stored proposal is not looked at
findDuplicate_anyStatus(tbl, domain, title) ==
    LET matches == {i \in DOMAIN tbl :
                       /\ tbl[i].domain = domain
                       /\ LOWER(tbl[i].title) = LOWER(title)}
    IN  {tbl[i] : i \in {k \in matches :
                             \A j \in matches : tbl[j].created_at <= tbl[k].created_at}}

\* findDuplicate(db, domain, title): SELECT ... WHERE domain = ? AND
\* LOWER(title) = LOWER(?) AND status IN ('pending','greenlit')
\* ORDER BY created_at DESC LIMIT 1. The set of rows the query may return:
\* empty for null; among matches created in the same second SQLite is free to
\* return any.
findDuplicate(tbl, domain, title) ==
    LET matches == {i \in DOMAIN tbl :
                       /\ tbl[i].domain = domain
                       /\ LOWER(tbl[i].title) = LOWER(title)
                       /\ tbl[i].status \in {"pending", "greenlit"}}
    IN  {tbl[i] : i \in {k \in matches :
                             \A j \in matches : tbl[j].created_at <= tbl[k].created_at}}

\* listProposals(db, {status, domain, limit}): SELECT * FROM proposals
\* [WHERE status = ? AND domain = ?] ORDER BY created_at DESC [LIMIT ?].
\* A filter that is "" and a limit that is 0 are falsy and add no clause.
\* The set of id lists the query may return: created_at has one-second
\* resolution and is the only sort key, so rows created in the same second
\* may come in either order.
listProposals(tbl, status, domain, limit) ==
    LET matches == {i \in DOMAIN tbl :
                       /\ (status # "" => tbl[i].status = status)
                       /\ (domain # "" => tbl[i].domain = domain)}
        n == Cardinality(matches)
        orders == {f \in [1..n -> matches] :
                      /\ \A a, b \in 1..n : a # b => f[a] # f[b]
                      /\ \A a, b \in 1..n :
                            a < b => tbl[f[a]].created_at >= tbl[f[b]].created_at}
        take(f) == IF limit # 0 /\ limit < n THEN SubSeq(f, 1, limit) ELSE f
    IN  {[k \in DOMAIN take(f) |-> tbl[take(f)[k]].id] : f \in orders}

\* INSERT INTO proposals (domain, title, body, effort, recommendation, source):
\* id is AUTOINCREMENT, status defaults to 'pending', created_at to
\* datetime('now'), resolved_at and resolution_note to NULL (resolved_at is
\* <<>> when NULL and <<t>> when set)
NewProposal(tbl, t, in) ==
    [id              |-> Len(tbl) + 1,
     domain          |-> in.domain,
     title           |-> in.title,
     body            |-> in.body,
     effort          |-> in.effort,
     recommendation  |-> in.recommendation,
     status          |-> "pending",
     source          |-> in.source,
     created_at      |-> t,
     resolved_at     |-> <<>>,
     resolution_note |-> NULL]

\* mutant of createProposal: a duplicate overwrites the stored body
createProposal_overwrite(tbl, t, in) ==
    LET existing == findDuplicate(tbl, in.domain, in.title)
    IN  IF existing # {}
        THEN {[table |-> [tbl EXCEPT ![e.id].body = in.body],
               row |-> e, _deduplicated |-> TRUE] : e \in existing}
        ELSE {[table |-> Append(tbl, NewProposal(tbl, t, in)),
               row |-> NewProposal(tbl, t, in), _deduplicated |-> FALSE]}

\* createProposal(db, {domain, title, body, effort, recommendation, source})
\* at time t: the outcomes the call can have, each the table it leaves, the
\* row it returns and whether the row carries the _deduplicated flag
createProposal(tbl, t, in) ==
    LET existing == findDuplicate(tbl, in.domain, in.title)
    IN  IF existing # {}
        THEN {[table |-> tbl, row |-> e, _deduplicated |-> TRUE] : e \in existing}
        ELSE {[table |-> Append(tbl, NewProposal(tbl, t, in)),
               row |-> NewProposal(tbl, t, in), _deduplicated |-> FALSE]}

\* the rows SELECT * FROM proposals WHERE id = ? returns: none or one
ProposalById(tbl, id) == {tbl[i] : i \in {k \in DOMAIN tbl : tbl[k].id = id}}

\* mutant of resolveProposal: the status is written before it is validated
resolveProposal_unchecked(tbl, t, id, status, note) ==
    LET updated == [i \in DOMAIN tbl |->
                       IF tbl[i].id = id
                       THEN [tbl[i] EXCEPT !.status = status,
                                           !.resolution_note = note,
                                           !.resolved_at = <<t>>]
                       ELSE tbl[i]]
    IN  [table |-> updated, threw |-> status \notin VALID_RESOLUTIONS,
         message |-> <<"Invalid resolution status:", status>>,
         ret |-> ProposalById(updated, id)]

\* resolveProposal(db, id, status, note) at time t: the table it leaves,
\* whether it threw (and the message), and the row it returns (none: undefined)
resolveProposal(tbl, t, id, status, note) ==
    IF status \notin VALID_RESOLUTIONS
    THEN [table |-> tbl, threw |-> TRUE,
          message |-> <<"Invalid resolution status:", status>>, ret |-> {}]
    ELSE LET updated == [i \in DOMAIN tbl |->
                            IF tbl[i].id = id
                            THEN [tbl[i] EXCEPT !.status = status,
                                                !.resolution_note = note,
                                                !.resolved_at = <<t>>]
                            ELSE tbl[i]]
         IN  [table |-> updated, threw |-> FALSE, message |-> <<>>,
              ret |-> ProposalById(updated, id)]

\* mutant of postResolve: a missing proposal is answered like a found one
postResolve_always200(tbl, log, t, id, status, note) ==
    LET r == resolveProposal(tbl, t, id, status, note)
    IN  IF r.threw
        THEN [table |-> tbl, log |-> log, code |-> 400]
        ELSE [table |-> r.table,
              log   |-> logAction(log, "api", "resolve_proposal", "unknown",
                                  <<"proposal resolved as", id, status>>, FALSE),
              code  |-> 200]

\* POST /proposals/:id/resolve with a status in the body: the store the
\* handler leaves and the HTTP status it answers with
postResolve(tbl, log, t, id, status, note) ==
    LET r == resolveProposal(tbl, t, id, status, note)
    IN  IF r.threw
        THEN [table |-> tbl, log |-> log, code |-> 400]
        ELSE IF r.ret = {}
        THEN [table |-> r.table, log |-> log, code |-> 404]
        ELSE LET proposal == CHOOSE row \in r.ret : TRUE
             IN  [table |-> r.table,
                  log   |-> logAction(log, "api", "resolve_proposal", proposal.domain,
                                      <<"proposal resolved as", id, status>>, FALSE),
                  code  |-> 200]

----------------------------------------------------------------------------
(* HTTP surface: the routes of server.js that change the state store *)

\* Number(x) for the body values of the model, given as their JSON text
Number(x) ==
    CASE x = "0" -> Num(0)
      [] x = "1" -> Num(1)
      [] x = "2" -> Num(2)
      [] x = "-1" -> Num(-1)
      [] x = "1.5" -> Half(1)
      [] OTHER -> NaN

\* a number of dollars in cents
Cents(a) == IF a.nan THEN NaN ELSE Num(Twice(a) * 50)

\* what a handler leaves behind: the store, the log and the response
Handled(st, log, code, body) == [state |-> st, log |-> log, code |-> code, body |-> body]

\* mutant of postPace: the change is not written to the audit log
postPace_unlogged(st, log, pace) ==
    IF pace = "" THEN Handled(st, log, 400, <<"pace is required">>)
    ELSE IF setPaceThrows(pace) THEN Handled(st, log, 400, setPaceError(pace))
    ELSE Handled(setPace(st, pace), log, 200, <<pace>>)

\* POST /pace; a missing or empty pace is ""
postPace(st, log, pace) ==
    IF pace = "" THEN Handled(st, log, 400, <<"pace is required">>)
    ELSE IF setPaceThrows(pace) THEN Handled(st, log, 400, setPaceError(pace))
    ELSE Handled(setPace(st, pace),
                 logAction(log, "api", "set_pace", "system", <<"pace set to", pace>>, FALSE),
                 200, <<pace>>)

\* POST /mode
postMode(st, log, mode) ==
    IF mode = "" THEN Handled(st, log, 400, <<"mode is required">>)
    ELSE IF setModeThrows(mode) THEN Handled(st, log, 400, setModeError(mode))
    ELSE Handled(setMode(st, mode),
                 logAction(log, "api", "set_mode", "system", <<"mode set to", mode>>, FALSE),
                 200, <<mode>>)

\* POST /anomalies/threshold; a missing key or value is ""
postThreshold(st, log, key, value) ==
    IF key = "" \/ value = ""
    THEN Handled(st, log, 400, <<"key and value are required">>)
    ELSE IF setAnomalyThresholdThrows(key, Number(value))
    THEN Handled(st, log, 400,
                 IF key \notin VALID_THRESHOLDS
                 THEN <<"Unknown threshold:", key, "Valid:", VALID_THRESHOLDS>>
                 ELSE <<"Threshold must be a positive integer">>)
    ELSE LET st2 == setAnomalyThreshold(st, key, Number(value))
         IN  Handled(st2,
                     logAction(log, "api", "set_anomaly_threshold", "system",
                               <<key, "set to", value>>, FALSE),
                     200,
                     <<st2.max_calls_per_agent_per_hour, st2.max_consecutive_failures>>)

\* POST /budget/ceiling; a missing ceiling is ""
postCeiling(st, log, ceiling) ==
    IF ceiling = ""
    THEN Handled(st, log, 400, <<"ceiling is required (positive number, dollars per 24h)">>)
    ELSE IF setCeilingThrows(Cents(Number(ceiling)))
    THEN Handled(st, log, 400, <<"Budget ceiling must be a positive number">>)
    ELSE LET st2 == setCeiling(st, Cents(Number(ceiling)))
         IN  Handled(st2,
                     logAction(log, "api", "set_budget_ceiling", "system",
                               <<"Budget ceiling set to $", ceiling, "/24h">>, FALSE),
                     200, <<st2.budget_ceiling>>)

\* POST /budget/cost-per-call; a missing cost is ""
postCostPerCall(st, log, cost) ==
    IF cost = ""
    THEN Handled(st, log, 400, <<"cost is required (non-negative number, dollars per call)">>)
    ELSE IF setCostPerCallThrows(Cents(Number(cost)))
    THEN Handled(st, log, 400, <<"Cost per call must be a non-negative number">>)
    ELSE LET st2 == setCostPerCall(st, Cents(Number(cost)))
         IN  Handled(st2,
                     logAction(log, "api", "set_cost_per_call", "system",
                               <<"Cost per call set to $", cost>>, FALSE),
                     200, <<st2.budget_cost_per_call>>)

----------------------------------------------------------------------------
(* Career dossier: dossier.js *)

\* getTopics(): the ids of the topics configured in career-topics.json, in
\* file order
Topics == <<"licensing-strategies", "revenue-diversification">>

\* the look-back of pickNextTopic, datetime('now', '-7 days'), in hours
WeekWindow == 7 * DayWindow

\* addEntry(db, {topicId, category, findings, relevance, source}): one
\* INSERT, created_at defaults to datetime('now')
addEntry(entries, t, topicId, category) ==
    Append(entries, [id         |-> Len(entries) + 1,
                     topic_id   |-> topicId,
                     category   |-> category,
                     created_at |-> t])

\* mutant of pickNextTopic: always the random fallback over all topics
pickNextTopic_anyTopic(entries, t) == {Topics[i] : i \in DOMAIN Topics}

\* pickNextTopic(db): the set of topic ids it may return. Math.random picks
\* any unresearched topic; among groups with the same last_researched the
\* order of the rows of GROUP BY decides which one sort() puts first.
pickNextTopic(entries, t) ==
    LET recent == {i \in DOMAIN entries : entries[i].created_at >= t - WeekWindow}
        recentSet == {entries[i].topic_id : i \in recent}
        last_researched(id) ==
            CHOOSE c \in {entries[i].created_at : i \in recent} :
                /\ \E i \in recent : entries[i].topic_id = id /\ entries[i].created_at = c
                /\ \A i \in recent : entries[i].topic_id = id => entries[i].created_at <= c
        unresearched == {Topics[i] : i \in {k \in DOMAIN Topics : Topics[k] \notin recentSet}}
        oldest == {id \in recentSet :
                      \A other \in recentSet : last_researched(id) <= last_researched(other)}
    IN  IF unresearched # {} THEN unresearched
        ELSE IF oldest # {}
        THEN {IF \E i \in DOMAIN Topics : Topics[i] = id THEN id ELSE Topics[1] : id \in oldest}
        ELSE {Topics[i] : i \in DOMAIN Topics}

----------------------------------------------------------------------------
(* Store initialization: db.js *)

\* a database file without a system_state row
EmptyStore == <<>>

\* the eight rows createDb inserts
Defaults ==
    [pace |-> "pause", mode |-> "awake",
     sleep_start |-> HHMM(23, 0),
     sleep_end |-> HHMM(8, 0),
     budget_ceiling |-> Num(DefaultCeiling),
     budget_cost_per_call |-> Num(DefaultCostPerCall),
     max_calls_per_agent_per_hour |-> DefaultMaxCalls,
     max_consecutive_failures |-> DefaultMaxFailures]

\* mutant of createDb: INSERT OR REPLACE
createDb_replace(st) == Defaults

\* createDb(path): INSERT OR IGNORE INTO system_state for each default
createDb(st) ==
    [k \in DOMAIN st \cup DOMAIN Defaults |->
        IF k \in DOMAIN st THEN st[k] ELSE Defaults[k]]

----------------------------------------------------------------------------
(* Calls made by the operator, the HTTP layer, the tests and the clock *)

\* inputs of the model: every declared value and some undeclared ones
PaceInputs == VALID_PACES \cup {"turbo"}
ModeInputs == VALID_MODES \cup {"nap"}
ActionInputs == SLEEP_ALLOWED \cup {"deploy", "message"}
UsageAgents == {"openclaw:scan@pi1", "custom-agent"}
ThresholdInputs == {Num(0), Num(1)}
CeilingInputs == {Num(0), Num(1)}
\* the numbers Number(body value) hands to the budget setters
NumberInputs == {NaN, Num(-1), Num(0), Num(1)}

CallIsAllowed(m, a, p) ==
    /\ allowQ' = [called |-> TRUE, mode |-> m, action |-> a, pace |-> p,
                  result |-> isAllowed(m, a, p)]
    /\ UNCHANGED <<system_state, audit_log, api_usage, now, dispatchVars, proposalVars, schedVars,
                   sideVars>>

SetPace(p) ==
    /\ system_state' = setPace(system_state, p)
    /\ UNCHANGED <<audit_log, api_usage, now, dispatchVars, allowQ, sideVars, proposalVars, schedVars>>

SetMode(m) ==
    /\ system_state' = setMode(system_state, m)
    /\ tickQ' = IF m \in VALID_MODES THEN [tickQ EXCEPT !.fresh = FALSE] ELSE tickQ
    /\ UNCHANGED <<audit_log, api_usage, now, dispatchVars, allowQ, sideVars, proposalVars, windowQ>>

SetCeiling(c) ==
    /\ system_state' = setCeiling(system_state, c)
    /\ UNCHANGED <<audit_log, api_usage, now, dispatchVars, allowQ, sideVars, proposalVars, schedVars>>

SetCostPerCall(c) ==
    /\ system_state' = setCostPerCall(system_state, c)
    /\ UNCHANGED <<audit_log, api_usage, now, dispatchVars, allowQ, sideVars, proposalVars, schedVars>>

SetAnomalyThreshold(key, value) ==
    /\ system_state' = setAnomalyThreshold(system_state, key, value)
    /\ UNCHANGED <<audit_log, api_usage, now, dispatchVars, allowQ, sideVars, proposalVars, schedVars>>

RecordUsage(agent, cost) ==
    /\ Len(api_usage) < MaxUsage
    /\ api_usage' = recordUsage(api_usage, now, agent, "test", "pi1", cost)
    /\ UNCHANGED <<system_state, audit_log, now, dispatchVars, allowQ, sideVars, proposalVars, schedVars>>

LogAction(agent, blocked) ==
    /\ Room(1)
    /\ audit_log' = logAction(audit_log, agent, "deploy", "test", NULL, blocked)
    /\ UNCHANGED <<system_state, api_usage, now, dispatchVars, allowQ, sideVars, proposalVars, schedVars>>

Advance(d) ==
    /\ now + d <= MaxTime
    /\ now' = now + d
    /\ UNCHANGED <<system_state, audit_log, api_usage, dispatchVars, allowQ, sideVars, proposalVars, schedVars>>

\* the clock jumps ahead by whole days
AdvanceDays(n) ==
    /\ now + n * DayWindow <= MaxDays * DayWindow
    /\ now' = now + n * DayWindow
    /\ UNCHANGED <<system_state, audit_log, api_usage, dispatchVars, allowQ, proposalVars,
                   schedVars, sideVars>>

\* body values of the model, as JSON text ("" is a missing field)
BodyValues == {"", "0", "1", "2", "-1", "1.5", "abc"}

\* a request to one of the state-changing routes
Request(route, arg, r) ==
    /\ Room(Len(r.log) - Len(audit_log))
    /\ system_state' = r.state
    /\ audit_log' = r.log
    /\ httpQ' = [route |-> route, arg |-> arg, code |-> r.code, body |-> r.body]
    /\ tickQ' = IF route = "POST /mode" /\ r.code = 200
                THEN [tickQ EXCEPT !.fresh = FALSE] ELSE tickQ
    /\ UNCHANGED <<api_usage, now, dispatchVars, allowQ, proposalVars, windowQ,
                   dossier_entries, loopVars>>

\* addEntry called by the research pipeline and the tests
AddEntry(topicId) ==
    /\ Len(dossier_entries) < MaxEntries
    /\ dossier_entries' = addEntry(dossier_entries, now, topicId, "revenue")
    /\ UNCHANGED <<system_state, audit_log, api_usage, now, dispatchVars, allowQ,
                   proposalVars, schedVars, httpQ, loopVars>>

\* pickNextTopic called by careerResearchTask
PickNextTopic ==
    \E topic \in pickNextTopic(dossier_entries, now) :
        /\ httpQ' = [route |-> "pickNextTopic", arg |-> <<now>>, code |-> 0,
                     body |-> <<topic>>]
        /\ UNCHANGED <<system_state, audit_log, api_usage, now, dispatchVars, allowQ,
                       proposalVars, schedVars, dossier_entries, loopVars>>

\* GET /proposals with the query parameters status, domain and limit
ListProposals(status, domain, limit) ==
    \E ids \in listProposals(proposals, status, domain, limit) :
        /\ httpQ' = [route |-> "GET /proposals", arg |-> <<status, domain, limit>>,
                     code |-> 200, body |-> ids]
        /\ UNCHANGED <<system_state, audit_log, api_usage, now, dispatchVars, allowQ,
                       proposalVars, schedVars, dossier_entries, loopVars>>

\* the server is started again on the same database file: createDb, then
\* the pace and mode rows are read
Restart ==
    /\ system_state' = createDb(system_state)
    /\ httpQ' = [route |-> "createDb", arg |-> <<>>, code |-> 0,
                 body |-> <<createDb(system_state).pace, createDb(system_state).mode>>]
    /\ UNCHANGED <<audit_log, api_usage, now, dispatchVars, allowQ, proposalVars, schedVars,
                   dossier_entries, loopVars>>

\* GET /budget
GetBudget ==
    /\ httpQ' = [route |-> "GET /budget", arg |-> <<>>, code |-> 200,
                 body |-> getBudgetStatus]
    /\ UNCHANGED <<system_state, audit_log, api_usage, now, dispatchVars, allowQ,
                   proposalVars, schedVars, dossier_entries, loopVars>>

PostPace(pace) ==
    Request("POST /pace", <<pace>>, postPace(system_state, audit_log, pace))

PostMode(mode) ==
    Request("POST /mode", <<mode>>, postMode(system_state, audit_log, mode))

PostThreshold(key, value) ==
    Request("POST /anomalies/threshold", <<key, value>>,
            postThreshold(system_state, audit_log, key, value))

PostCeiling(ceiling) ==
    Request("POST /budget/ceiling", <<ceiling>>,
            postCeiling(system_state, audit_log, ceiling))

PostCostPerCall(cost) ==
    Request("POST /budget/cost-per-call", <<cost>>,
            postCostPerCall(system_state, audit_log, cost))

\* the Date values the scheduler's interval and the tests hand to tick
TickTimes ==
    { [hours |-> 22, minutes |-> 59], [hours |-> 23, minutes |-> 0],
      [hours |-> 8, minutes |-> 0] }

\* the time strings handed to isInSleepWindow and setSchedule
TimeInputs ==
    { HHMM(0, 0), HHMM(0, 59), HHMM(1, 0), HHMM(6, 0), HHMM(7, 59), HHMM(8, 0),
      HHMM(22, 59), HHMM(23, 0), HHMM(23, 59) }

ProposalInputs ==
    { [domain |-> "site", title |-> "Add favicon", body |-> "first body",
       effort |-> "small", recommendation |-> "do it", source |-> "scan"],
      [domain |-> "site", title |-> "Add Favicon", body |-> "second body",
       effort |-> "large", recommendation |-> "skip", source |-> "api"],
      [domain |-> "music", title |-> "Add favicon", body |-> "first body",
       effort |-> "small", recommendation |-> "do it", source |-> "scan"],
      [domain |-> "site", title |-> "Fix SEO", body |-> "first body",
       effort |-> "small", recommendation |-> "do it", source |-> "scan"] }

StatusInputs == VALID_RESOLUTIONS \cup {"pending", "bogus"}

\* a POST /sandbox/run request that has not arrived yet
NoRun == [pc |-> "idle", proposalId |-> 0, answer |-> <<>>]

NoAnswer == [route |-> "none", arg |-> <<>>, code |-> 0, body |-> <<>>]

NoCall == [op |-> "none", title |-> "", id |-> 0, _deduplicated |-> FALSE, threw |-> FALSE,
           code |-> 0]

Tick(d) ==
    LET r == tick(system_state, audit_log, d)
    IN  /\ Room(IF r.ret THEN 1 ELSE 0)
        /\ system_state' = r.state
        /\ audit_log' = r.log
        /\ tickQ' = [called |-> TRUE,
                     inside |-> isInSleepWindow(HHMM(d.hours, d.minutes),
                                                getSchedule.sleepStart,
                                                getSchedule.sleepEnd),
                     ret    |-> r.ret,
                     fresh  |-> TRUE]
        /\ UNCHANGED <<api_usage, now, dispatchVars, allowQ, sideVars, proposalVars, windowQ>>

SetSchedule(sleepStart, sleepEnd) ==
    /\ system_state' = setSchedule(system_state, sleepStart, sleepEnd)
    /\ tickQ' = IF system_state' # system_state
                THEN [tickQ EXCEPT !.fresh = FALSE] ELSE tickQ
    /\ UNCHANGED <<audit_log, api_usage, now, dispatchVars, allowQ, sideVars, proposalVars, windowQ>>

CallIsInSleepWindow(timeStr, sleepStart, sleepEnd) ==
    /\ windowQ' = [called     |-> TRUE,
                   timeStr    |-> timeStr,
                   sleepStart |-> sleepStart,
                   sleepEnd   |-> sleepEnd,
                   result     |-> isInSleepWindow(timeStr, sleepStart, sleepEnd)]
    /\ UNCHANGED <<system_state, audit_log, api_usage, now, dispatchVars, allowQ, sideVars,
                   proposalVars, tickQ>>

\* createProposal called directly (the scan pipeline, the tests)
CreateProposal(in) ==
    \E r \in createProposal(proposals, now, in) :
        /\ Len(r.table) <= MaxProposals
        /\ proposals' = r.table
        /\ propQ' = [op |-> "createProposal", title |-> in.title, id |-> r.row.id,
                     _deduplicated |-> r._deduplicated, threw |-> FALSE, code |-> 0]
        /\ UNCHANGED <<system_state, audit_log, api_usage, now, dispatchVars, allowQ, sideVars,
                       schedVars>>

\* resolveProposal called directly (the sandbox route, the tests)
ResolveProposal(id, status, note) ==
    LET r == resolveProposal(proposals, now, id, status, note)
    IN  /\ proposals' = r.table
        /\ propQ' = [op |-> "resolveProposal", title |-> "",
                     id |-> IF r.ret = {} THEN 0 ELSE id,
                     _deduplicated |-> FALSE, threw |-> r.threw, code |-> 0]
        /\ UNCHANGED <<system_state, audit_log, api_usage, now, dispatchVars, allowQ, sideVars,
                       schedVars>>

PostResolve(id, status, note) ==
    LET r == postResolve(proposals, audit_log, now, id, status, note)
    IN  /\ Room(Len(r.log) - Len(audit_log))
        /\ proposals' = r.table
        /\ audit_log' = r.log
        /\ propQ' = [op |-> "POST resolve", title |-> "",
                     id |-> IF r.code = 200 THEN id ELSE 0,
                     _deduplicated |-> FALSE, threw |-> FALSE, code |-> r.code]
        /\ UNCHANGED <<system_state, api_usage, now, dispatchVars, allowQ, sideVars, schedVars>>

----------------------------------------------------------------------------
(* The running scheduler: startScheduler of sleep-scheduler.js, createServer *)

\* no server has been created yet
NoInterval == [state |-> "none", at |-> [hours |-> 0, minutes |-> 0], ticks |-> 0]

\* the wall clock 60 000 ms after d
NextMinute(d) ==
    IF d.minutes = 59
    THEN [hours |-> (d.hours + 1) % 24, minutes |-> 0]
    ELSE [hours |-> d.hours, minutes |-> d.minutes + 1]

\* the times of day at which the server is started
StartTimes ==
    { [hours |-> 11, minutes |-> 59], [hours |-> 22, minutes |-> 59],
      [hours |-> 7, minutes |-> 59] }

\* tick(db) called by the scheduler at time of day d
schedulerTick(d) ==
    LET r == tick(system_state, audit_log, d)
    IN  /\ Room(IF r.ret THEN 1 ELSE 0)
        /\ system_state' = r.state
        /\ audit_log' = r.log
        /\ tickQ' = [called |-> TRUE,
                     inside |-> isInSleepWindow(HHMM(d.hours, d.minutes),
                                                getSchedule.sleepStart,
                                                getSchedule.sleepEnd),
                     ret    |-> r.ret,
                     fresh  |-> TRUE]
        /\ UNCHANGED <<api_usage, now, dispatchVars, allowQ, proposalVars, windowQ,
                       dossier_entries, httpQ, sandboxRuns, watchdog>>

\* startScheduler(db), called by createServer: tick(db) at once, then setInterval
startScheduler(d) ==
    /\ schedulerInterval.state = "none"
    /\ schedulerTick(d)
    /\ schedulerInterval' = [state |-> "running", at |-> d, ticks |-> 1]

\* the callback of setInterval(() => tick(db), 60_000)
intervalTick ==
    /\ schedulerInterval.state = "running"
    /\ schedulerInterval.ticks < MaxTicks
    /\ schedulerTick(NextMinute(schedulerInterval.at))
    /\ schedulerInterval' = [schedulerInterval EXCEPT !.at = NextMinute(@),
                                                      !.ticks = @ + 1]

\* server.on('close', () => clearInterval(schedulerInterval))
closeServer ==
    /\ schedulerInterval.state = "running"
    /\ schedulerInterval' = [schedulerInterval EXCEPT !.state = "cleared"]
    /\ UNCHANGED <<system_state, audit_log, api_usage, now, dispatchVars, allowQ,
                   proposalVars, schedVars, dossier_entries, httpQ, sandboxRuns, watchdog>>

----------------------------------------------------------------------------
(* Watchdog: watchdog.sh *)

\* consecutive failures before kill
FAIL_THRESHOLD == 3

\* mutant of heartbeat: a successful check leaves fail_count as it is
heartbeat_noReset(w, ok) ==
    LET n == Len(w.checks) + 1
        checks == Append(w.checks, IF ok THEN "ok" ELSE "fail")
    IN  IF ok
        THEN [w |-> [w EXCEPT !.checks = checks], kill |-> FALSE]
        ELSE IF w.fail_count + 1 >= FAIL_THRESHOLD
        THEN [w |-> [fail_count |-> 0, checks |-> checks, signals |-> w.signals \cup {n}],
              kill |-> TRUE]
        ELSE [w |-> [w EXCEPT !.fail_count = @ + 1, !.checks = checks], kill |-> FALSE]

\* one turn of the loop, the heartbeat curl having succeeded (ok) or failed:
\* the watchdog's state after it and whether kill_workflows was called
heartbeat(w, ok) ==
    LET n == Len(w.checks) + 1
        checks == Append(w.checks, IF ok THEN "ok" ELSE "fail")
    IN  IF ok
        THEN [w |-> [w EXCEPT !.fail_count = 0, !.checks = checks], kill |-> FALSE]
        ELSE IF w.fail_count + 1 >= FAIL_THRESHOLD
        THEN [w |-> [fail_count |-> 0, checks |-> checks, signals |-> w.signals \cup {n}],
              kill |-> TRUE]
        ELSE [w |-> [w EXCEPT !.fail_count = @ + 1, !.checks = checks], kill |-> FALSE]

\* one turn of the watchdog's loop. kill_workflows posts {"pace":"stop"} to
\* the orchestrator; the request arrives (delivered) or curl fails, which
\* '|| true' ignores.
watchdogCheck(ok, delivered) ==
    LET h == heartbeat(watchdog, ok)
        r == postPace(system_state, audit_log, "stop")
    IN  /\ Len(watchdog.checks) < MaxChecks
        /\ watchdog' = h.w
        /\ IF h.kill /\ delivered
           THEN /\ Room(Len(r.log) - Len(audit_log))
                /\ system_state' = r.state
                /\ audit_log' = r.log
           ELSE /\ delivered = FALSE
                /\ UNCHANGED <<system_state, audit_log>>
        /\ UNCHANGED <<api_usage, now, dispatchVars, allowQ, proposalVars, schedVars,
                       dossier_entries, httpQ, sandboxRuns, schedulerInterval>>

----------------------------------------------------------------------------
(* Sandbox route: POST /sandbox/run of server.js *)

\* projects.json of the model: the domains that have a repo configured
ProjectsWithRepo == {"site"}

\* the task sandboxExecuteTask builds for a proposal (agent-tasks.js)
sandboxExecuteTask(proposal) ==
    [action |-> "sandbox", domain |-> proposal.domain,
     agentName |-> "agent:sandbox-executor", node |-> ""]

\* what a sandbox dispatch can come back with: the agent's JSON with status
\* success, failed or partial, text that is no JSON, or a failed agent call
SandboxOutcomes == {"success", "failed", "partial", "unparseable", "reject"}

\* const greenlit = listProposals(db, { status: 'greenlit' }); greenlit[0]:
\* the ids the handler may pick, 0 when the list is empty
sandboxPick(tbl) ==
    {IF ids = <<>> THEN 0 ELSE ids[1] : ids \in listProposals(tbl, "greenlit", "", 0)}

\* the handler up to its await of import('node:fs'): lines 810-817
sandboxRunPick(r) ==
    /\ sandboxRuns[r].pc = "idle"
    /\ \A q \in Calls : q < r => sandboxRuns[q].pc # "idle"
    /\ \E id \in sandboxPick(proposals) :
          sandboxRuns' = [sandboxRuns EXCEPT ![r] =
              IF id = 0
              THEN [pc |-> "done", proposalId |-> 0,
                    answer |-> <<"No greenlit proposals to execute">>]
              ELSE [pc |-> "picked", proposalId |-> id, answer |-> <<>>]]
    /\ UNCHANGED <<system_state, audit_log, api_usage, now, dispatchVars, allowQ,
                   proposalVars, schedVars, dossier_entries, httpQ, watchdog,
                   schedulerInterval>>

\* from the projects lookup to the await of callAgent inside dispatch, or to
\* the answer when no repo is configured or the allowlist blocks: lines 818-825
sandboxRunDispatch(r) ==
    LET proposal == CHOOSE row \in ProposalById(proposals, sandboxRuns[r].proposalId) : TRUE
        t == sandboxExecuteTask(proposal)
        l == dispatchLocals(t)
    IN  /\ sandboxRuns[r].pc = "picked"
        /\ pc[r] = "idle"
        /\ IF proposal.domain \notin ProjectsWithRepo
           THEN /\ sandboxRuns' = [sandboxRuns EXCEPT ![r].pc = "done",
                                      ![r].answer = <<"No repo configured for domain",
                                                      proposal.domain>>]
                /\ UNCHANGED <<audit_log, dispatchVars>>
           ELSE /\ Room(IF isAllowed(l.mode, t.action, l.pace) THEN 2 ELSE 1)
                /\ task' = [task EXCEPT ![r] = t]
                /\ seen' = [seen EXCEPT ![r] = l]
                /\ IF ~isAllowed(l.mode, t.action, l.pace)
                   THEN /\ dispatchBlocked(r, t, l)
                        /\ sandboxRuns' = [sandboxRuns EXCEPT ![r].pc = "done",
                                              ![r].answer = <<"Blocked by allowlist">>]
                   ELSE /\ dispatchAllowed(r, t, l)
                        /\ sandboxRuns' = [sandboxRuns EXCEPT ![r].pc = "dispatched"]
        /\ UNCHANGED <<system_state, api_usage, now, allowQ, proposalVars, schedVars,
                       dossier_entries, httpQ, watchdog,
                   schedulerInterval>>

\* from the moment callAgent's promise resolves to the answer: the completion
\* row of dispatch, then lines 827-866
sandboxRunFinish(r, outcome) ==
    LET id   == sandboxRuns[r].proposalId
        c    == callAgent("pi1", IF outcome = "reject" THEN "reject" ELSE "answer")
        log1 == logAction(audit_log, seen[r].agentName, task[r].action, task[r].domain,
                          IF c.ok THEN <<"Completed on", c.node>>
                                  ELSE <<"Failed on", c.node, c.error>>,
                          FALSE)
        row(detail) == logAction(log1, "sandbox", "sandbox", task[r].domain, detail, FALSE)
    IN  /\ sandboxRuns[r].pc = "dispatched"
        /\ pc[r] = "calling"
        /\ outcome # "reject" => Room(1)
        /\ hist' = [hist EXCEPT ![r] = @ \o <<Event(outcome, 0),
                                              Event("log", Len(audit_log) + 1)>>]
        /\ result' = [result EXCEPT ![r] =
                        [ok |-> c.ok, response |-> c.response, error |-> c.error,
                         node |-> c.node, allowed |-> TRUE]]
        /\ pc' = [pc EXCEPT ![r] = "returned"]
        /\ CASE outcome = "success" ->
                  /\ proposals' = resolveProposal(proposals, now, id, "shipped",
                                                  "Sandbox: Implemented successfully").table
                  /\ audit_log' = row(<<"Proposal executed successfully", id>>)
             [] outcome = "failed" ->
                  /\ proposals' = resolveProposal(proposals, now, id, "shelved",
                                                  "Sandbox failed: see logs").table
                  /\ audit_log' = row(<<"Proposal sandbox failed, shelved", id>>)
             [] outcome = "partial" ->
                  /\ proposals' = proposals
                  /\ audit_log' = row(<<"Proposal sandbox result", id, "partial">>)
             [] outcome = "unparseable" ->
                  /\ proposals' = proposals
                  /\ audit_log' = row(<<"Proposal sandbox completed but response unparseable",
                                        id>>)
             [] OTHER ->
                  /\ proposals' = proposals
                  /\ audit_log' = log1
        /\ sandboxRuns' = [sandboxRuns EXCEPT ![r].pc = "done",
                              ![r].answer = <<outcome, id>>]
        /\ UNCHANGED <<system_state, api_usage, now, task, seen, allowQ, propQ, schedVars,
                       dossier_entries, httpQ, watchdog,
                   schedulerInterval>>

----------------------------------------------------------------------------
(* Specifications *)

\* createDb(path) on a fresh file: the defaults of db.js, empty tables
Init ==
    /\ system_state = createDb(EmptyStore)
    /\ audit_log = <<>>
    /\ api_usage = <<>>
    /\ now = 0
    /\ pc = [p \in Calls |-> "idle"]
    /\ task = [p \in Calls |-> NoTask]
    /\ seen = [p \in Calls |-> NoLocals]
    /\ hist = [p \in Calls |-> <<>>]
    /\ result = [p \in Calls |-> NoResult]
    /\ allowQ = [called |-> FALSE, mode |-> "", action |-> "", pace |-> "",
                 result |-> FALSE]
    /\ proposals = <<>>
    /\ propQ = NoCall
    /\ tickQ = [called |-> FALSE, inside |-> FALSE, ret |-> FALSE, fresh |-> FALSE]
    /\ windowQ = [called |-> FALSE, timeStr |-> HHMM(0, 0), sleepStart |-> HHMM(0, 0),
                  sleepEnd |-> HHMM(0, 0), result |-> FALSE]
    /\ dossier_entries = <<>>
    /\ httpQ = NoAnswer
    /\ sandboxRuns = [r \in Calls |-> NoRun]
    /\ watchdog = [fail_count |-> 0, checks |-> <<>>, signals |-> {}]
    /\ schedulerInterval = NoInterval

\* the dispatch gateway and the operator's pace / mode switches
Next ==
    \/ \E p \in Calls, t \in Tasks : dispatchStart(p, t)
    \/ \E p \in Calls, o \in AgentOutcomes : dispatchResume(p, o)
    \/ \E p \in VALID_PACES : SetPace(p)
    \/ \E m \in VALID_MODES : SetMode(m)

Spec == Init /\ [][Next]_vars

\* the gateway together with the budget tracker and the anomaly detector
NextNets ==
    \/ \E p \in Calls, t \in Tasks : dispatchStart(p, t)
    \/ \E p \in Calls, o \in AgentOutcomes : dispatchResume(p, o)
    \/ \E p \in {"full", "pause"} : SetPace(p)
    \/ \E c \in CeilingInputs : SetCeiling(c)
    \/ \E v \in ThresholdInputs : SetAnomalyThreshold("max_calls_per_agent_per_hour", v)
    \/ \E a \in {"openclaw:scan@pi1"} : RecordUsage(a, 1)
    \/ checkAnomalies

SpecNets == Init /\ [][NextNets]_vars

\* the permission matrix called directly
NextAllowlist ==
    \E m \in ModeInputs, a \in ActionInputs, p \in PaceInputs : CallIsAllowed(m, a, p)

SpecAllowlist == Init /\ [][NextAllowlist]_vars

\* the anomaly detector over the usage table and the audit log
NextAnomaly ==
    \/ checkAnomalies
    \/ RecordUsage("openclaw:scan@pi1", 1)
    \/ LogAction("rogue-agent", TRUE)
    \/ \E k \in VALID_THRESHOLDS \cup {"fake_key"}, v \in ThresholdInputs :
          SetAnomalyThreshold(k, v)
    \/ \E p \in {"full", "stop", "turbo"} : SetPace(p)
    \/ \E m \in {"awake", "sleep", "nap"} : SetMode(m)

SpecAnomaly == Init /\ [][NextAnomaly]_vars

\* rule A of the anomaly detector over usage rows of two agents, as time passes
NextRuleA ==
    \/ checkAnomalies
    \/ \E a \in UsageAgents : RecordUsage(a, 1)
    \/ \E v \in ThresholdInputs : SetAnomalyThreshold("max_calls_per_agent_per_hour", v)
    \/ Advance(1)

SpecRuleA == Init /\ [][NextRuleA]_vars

\* rule B of the anomaly detector over audit rows of two agents, blocked or not
NextRuleB ==
    \/ checkAnomalies
    \/ \E a \in {"rogue-agent", "custom-agent"}, b \in BOOLEAN : LogAction(a, b)
    \/ \E v \in {Num(1), Num(2)} : SetAnomalyThreshold("max_consecutive_failures", v)

SpecRuleB == Init /\ [][NextRuleB]_vars

\* the sleep-window test called directly
NextWindow ==
    \E t \in TimeInputs, s \in TimeInputs, e \in TimeInputs : CallIsInSleepWindow(t, s, e)

SpecWindow == Init /\ [][NextWindow]_vars

\* the sleep scheduler beside the operator's mode, pace and schedule switches
NextSched ==
    \/ \E d \in TickTimes : Tick(d)
    \/ \E m \in VALID_MODES : SetMode(m)
    \/ SetPace("stop")
    \/ \E w \in {<<HHMM(23, 0), HHMM(8, 0)>>, <<HHMM(8, 0), HHMM(23, 0)>>,
                  <<NotATime, HHMM(8, 0)>>} : SetSchedule(w[1], w[2])

SpecSched == Init /\ [][NextSched]_vars

\* the proposal store called directly
NextProposals ==
    \/ \E in \in ProposalInputs : CreateProposal(in)
    \/ \E id \in 1..(MaxProposals + 1), st \in StatusInputs :
          ResolveProposal(id, st, "because")

SpecProposals == Init /\ [][NextProposals]_vars

\* the resolve route of the HTTP surface over a store filled directly
NextResolveRoute ==
    \/ \E in \in {i \in ProposalInputs : i.title = "Add favicon"} : CreateProposal(in)
    \/ \E id \in 1..(MaxProposals + 1), st \in {"greenlit", "bogus"} :
          PostResolve(id, st, NULL)

SpecResolveRoute == Init /\ [][NextResolveRoute]_vars

\* the proposal store beside the gateway, the scheduler and the anomaly detector
NextLifecycle ==
    \/ \E in \in {i \in ProposalInputs : i.title = "Add favicon" /\ i.domain = "site"} :
          CreateProposal(in)
    \/ \E id \in 1..MaxProposals, st \in {"greenlit", "rejected", "pending"} :
          ResolveProposal(id, st, "because")
    \/ \E p \in Calls, t \in Tasks : dispatchStart(p, t)
    \/ \E p \in Calls : dispatchResume(p, "answer")
    \/ \E d \in {[hours |-> 23, minutes |-> 0], [hours |-> 8, minutes |-> 0]} : Tick(d)
    \/ SetAnomalyThreshold("max_consecutive_failures", Num(1))
    \/ checkAnomalies

SpecLifecycle == Init /\ [][NextLifecycle]_vars

\* every writer of the audit log at once: overlapping dispatches, the
\* scheduler, the anomaly detector and the HTTP routes
NextAudit ==
    \/ \E p \in Calls, t \in Tasks : dispatchStart(p, t)
    \/ \E p \in Calls, o \in AgentOutcomes : dispatchResume(p, o)
    \/ \E d \in {[hours |-> 23, minutes |-> 0], [hours |-> 8, minutes |-> 0]} : Tick(d)
    \/ checkAnomalies
    \/ SetPace("full")
    \/ \E pace \in {"full", "turbo"} : PostPace(pace)
    \/ PostThreshold("max_consecutive_failures", "1")

SpecAudit == Init /\ [][NextAudit]_vars

\* the pace and mode switches, called directly and through their routes
NextPace ==
    \/ \E p \in PaceInputs \cup {""} : SetPace(p)
    \/ \E m \in ModeInputs \cup {""} : SetMode(m)
    \/ \E p \in PaceInputs \cup {""} : PostPace(p)
    \/ \E m \in ModeInputs \cup {""} : PostMode(m)

SpecPace == Init /\ [][NextPace]_vars

\* the operations that write the store, side by side with the two that may
\* change the mode
NextFrame ==
    \/ \E t \in {x \in Tasks : x.action = "deploy"} : dispatchStart(1, t)
    \/ \E o \in AgentOutcomes : dispatchResume(1, o)
    \/ checkAnomalies
    \/ SetPace("full")
    \/ \E in \in {i \in ProposalInputs : i.title = "Fix SEO"} : CreateProposal(in)
    \/ ResolveProposal(1, "greenlit", NULL)
    \/ RecordUsage("custom-agent", 1)
    \/ SetCeiling(Num(1))
    \/ SetAnomalyThreshold("max_consecutive_failures", Num(1))
    \/ LogAction("rogue-agent", TRUE)
    \/ SetMode("sleep")
    \/ Tick([hours |-> 8, minutes |-> 0])

SpecFrame == Init /\ [][NextFrame]_vars

\* the budget tracker as usage is recorded, the ceiling is moved and time
\* passes
NextBudget ==
    \/ \E c \in {1, 2} : RecordUsage("custom-agent", c)
    \/ \E c \in {NaN, Num(0), Num(1), Num(2), Half(1)} : SetCeiling(c)
    \/ GetBudget
    \/ AdvanceDays(MaxDays)

SpecBudget == Init /\ [][NextBudget]_vars

\* the usage table as records are added and age, hour by hour and day by day
NextUsage ==
    \/ \E c \in {1, 2} : RecordUsage("custom-agent", c)
    \/ Advance(1)
    \/ AdvanceDays(1)

SpecUsage == Init /\ [][NextUsage]_vars

\* the configuration setters, called directly and through their routes
NextConfig ==
    \/ \E c \in {Num(-1), Half(1)} : SetCeiling(c)
    \/ \E c \in {Num(-1), Num(0)} : SetCostPerCall(c)
    \/ \E k \in {"max_consecutive_failures", "fake_key"}, v \in {Num(1), Half(1)} :
          SetAnomalyThreshold(k, v)
    \/ \E c \in {"", "0", "2", "abc"} : PostCeiling(c)
    \/ \E c \in {"-1", "abc"} : PostCostPerCall(c)
    \/ \E k \in {"max_calls_per_agent_per_hour", "fake_key"}, v \in {"0", "1.5", "2", "abc"} :
          PostThreshold(k, v)

SpecConfig == Init /\ [][NextConfig]_vars

\* everything that changes pace, mode or a threshold in the running server:
\* the three routes, the scheduler and the anomaly detector
NextReplay ==
    \/ \E pace \in {"full", "turbo"} : PostPace(pace)
    \/ \E mode \in {"sleep", "nap"} : PostMode(mode)
    \/ \E k \in {"max_consecutive_failures", "fake_key"}, v \in {"1", "abc"} :
          PostThreshold(k, v)
    \/ \E d \in {[hours |-> 23, minutes |-> 0], [hours |-> 8, minutes |-> 0]} : Tick(d)
    \/ LogAction("rogue-agent", TRUE)
    \/ checkAnomalies

SpecReplay == Init /\ [][NextReplay]_vars

\* the state store across restarts of the server
NextStore ==
    \/ \E p \in VALID_PACES : SetPace(p)
    \/ \E m \in VALID_MODES : SetMode(m)
    \/ SetCeiling(Num(1))
    \/ SetAnomalyThreshold("max_consecutive_failures", Num(1))
    \/ SetSchedule(HHMM(8, 0), HHMM(23, 0))
    \/ Restart

SpecStore == Init /\ [][NextStore]_vars

\* the proposal store listed as proposals are created and resolved over time
NextList ==
    \/ \E in \in {i \in ProposalInputs : i.title = "Add favicon"} : CreateProposal(in)
    \/ ResolveProposal(1, "greenlit", NULL)
    \/ Advance(1)
    \/ \E st \in {"", "pending"}, d \in {"", "site"}, l \in {0, 1} : ListProposals(st, d, l)

SpecList == Init /\ [][NextList]_vars

\* the dossier as findings are added, days pass and topics are picked
NextDossier ==
    \/ \E id \in {"licensing-strategies", "revenue-diversification"} :
          AddEntry(id)
    \/ AdvanceDays(1)
    \/ PickNextTopic

SpecDossier == Init /\ [][NextDossier]_vars

\* the dossier within one week: findings on the configured topics and the
\* strategy memos of POST /dispatch, hours apart
NextRotation ==
    \/ \E id \in {"licensing-strategies", "revenue-diversification", "strategy-memo"} :
          AddEntry(id)
    \/ Advance(1)
    \/ PickNextTopic

SpecRotation == Init /\ [][NextRotation]_vars

\* dispatches before and after an auto-pause, by day and by night
NextAutoPause ==
    \/ \E p \in Calls, t \in {ResearchTask} \cup {x \in Tasks : x.action = "deploy"} :
          dispatchStart(p, t)
    \/ \E p \in Calls : dispatchResume(p, "answer")
    \/ SetAnomalyThreshold("max_consecutive_failures", Num(1))
    \/ checkAnomalies
    \/ SetMode("sleep")
    \/ PostPace("full")

SpecAutoPause == Init /\ [][NextAutoPause]_vars

\* an operator resets the pace after an auto-pause and the detector runs again
NextReset ==
    \/ LogAction("rogue-agent", TRUE)
    \/ SetAnomalyThreshold("max_consecutive_failures", Num(1))
    \/ checkAnomalies
    \/ \E p \in {"full", "slow"} : PostPace(p)
    \/ Advance(1)

SpecReset == Init /\ [][NextReset]_vars

\* dispatches among the writers of pace and mode: the pace route, the
\* scheduler and the anomaly detector
NextLaunch ==
    \/ \E p \in Calls, t \in Tasks : dispatchStart(p, t)
    \/ \E p \in Calls : dispatchResume(p, "answer")
    \/ \E pace \in {"full", "stop"} : PostPace(pace)
    \/ SetPace("full")
    \/ \E d \in {[hours |-> 23, minutes |-> 0], [hours |-> 8, minutes |-> 0]} : Tick(d)
    \/ SetAnomalyThreshold("max_consecutive_failures", Num(1))
    \/ checkAnomalies

SpecLaunch == Init /\ [][NextLaunch]_vars

\* sandbox runs over greenlit proposals created at different times
NextSandbox ==
    \/ \E in \in {i \in ProposalInputs : i.body = "first body" /\ i.title = "Add favicon"} :
          CreateProposal(in)
    \/ \E id \in 1..MaxProposals : ResolveProposal(id, "greenlit", "go")
    \/ Advance(1)
    \/ SetPace("full")
    \/ \E r \in Calls : sandboxRunPick(r)
    \/ \E r \in Calls : sandboxRunDispatch(r)
    \/ \E r \in Calls, o \in SandboxOutcomes : sandboxRunFinish(r, o)

SpecSandbox == Init /\ [][NextSandbox]_vars

\* the server's scheduler from start to close, beside the operator's mode
\* switch; the timer fires as long as it is not cleared
NextScheduler ==
    \/ \E d \in StartTimes : startScheduler(d)
    \/ intervalTick
    \/ closeServer
    \/ \E m \in VALID_MODES : SetMode(m)
    \/ SetSchedule(HHMM(8, 0), HHMM(23, 0))

SpecScheduler == Init /\ [][NextScheduler]_vars /\ WF_vars(intervalTick)

\* the watchdog beside an operator who sets the pace back to full
NextWatchdog ==
    \/ \E ok \in BOOLEAN, delivered \in BOOLEAN : watchdogCheck(ok, delivered)
    \/ SetPace("full")

SpecWatchdog == Init /\ [][NextWatchdog]_vars

----------------------------------------------------------------------------
(* Claims about the permission matrix, checked under SpecAllowlist *)

\* C1: for every mode and every action, isAllowed(mode, action, 'stop') is
\* false: nothing is permitted while the pace is stop.
C1_StopBlocksEverything ==
    (allowQ.called /\ allowQ.pace = "stop") => allowQ.result = FALSE

C1_Witness ==
    /\ allowQ.called
    /\ allowQ.pace = "stop"
    /\ allowQ.mode = "sleep"
    /\ allowQ.action = "scan"
    /\ allowQ.result = FALSE

\* C3: for the paces full, slow and pause isAllowed equals the permission
\* table: in mode sleep exactly the seven sleep-safe actions, whatever the
\* pace; in mode awake with pace pause exactly scan; in mode awake with pace
\* full or slow every action.
C3_PermissionTable ==
    (/\ allowQ.called
     /\ allowQ.pace \in {"full", "slow", "pause"}
     /\ allowQ.mode \in {"awake", "sleep"})
    => (allowQ.result = TRUE <=>
           \/ /\ allowQ.mode = "sleep"
              /\ allowQ.action \in {"scan", "research", "draft", "test",
                                    "maintenance", "analyze", "sandbox"}
           \/ /\ allowQ.mode = "awake"
              /\ allowQ.pace = "pause"
              /\ allowQ.action = "scan"
           \/ /\ allowQ.mode = "awake"
              /\ allowQ.pace \in {"full", "slow"})

C3_Witness ==
    /\ allowQ.called
    /\ allowQ.mode = "sleep"
    /\ allowQ.pace = "full"
    /\ allowQ.action = "deploy"
    /\ allowQ.result = FALSE

\* C4: isAllowed fails closed: for a pace outside {full, slow, pause, stop}
\* or a mode outside {awake, sleep} it returns false for every action.
C4_FailsClosed ==
    (/\ allowQ.called
     /\ \/ allowQ.pace \notin {"full", "slow", "pause", "stop"}
        \/ allowQ.mode \notin {"awake", "sleep"})
    => allowQ.result = FALSE

----------------------------------------------------------------------------
(* Claims about the dispatch gateway, checked under Spec *)

\* the ids of the audit rows a dispatch call has appended
LoggedBy(p) == {hist[p][k].id : k \in {n \in DOMAIN hist[p] : hist[p][n].ev = "log"}}

\* whether the call's agent invocation failed
Rejected(p) == \E k \in DOMAIN hist[p] : hist[p][k].ev = "reject"

\* the permission check of a call, on the pace and mode it read
Permitted(p) == isAllowed(seen[p].mode, task[p].action, seen[p].pace)

RowOf(p, i, blocked) ==
    /\ i \in DOMAIN audit_log
    /\ audit_log[i].id = i
    /\ audit_log[i].agent = seen[p].agentName
    /\ audit_log[i].action = task[p].action
    /\ audit_log[i].domain = task[p].domain
    /\ audit_log[i].blocked = blocked

\* C2: when isAllowed is false for the mode and pace read at the start of
\* dispatch, the call appends exactly one audit row (blocked, its detail
\* naming that mode and pace), never invokes the external agent, and returns
\* ok:false, allowed:false, response:null, error 'Blocked by allowlist'.
C2_BlockedDispatch ==
    \A p \in Calls :
        (pc[p] # "idle" /\ ~Permitted(p)) =>
            /\ pc[p] = "returned"
            /\ Len(hist[p]) = 1
            /\ hist[p][1].ev = "log"
            /\ RowOf(p, hist[p][1].id, 1)
            /\ audit_log[hist[p][1].id].detail =
                   <<"Blocked by allowlist", seen[p].mode, seen[p].pace>>
            /\ result[p] = [ok |-> FALSE, allowed |-> FALSE, response |-> NULL,
                            error |-> "Blocked by allowlist"]

C2_Witness ==
    \E p \in Calls :
        /\ pc[p] = "returned"
        /\ task[p].action = "deploy"
        /\ seen[p].mode = "sleep"
        /\ seen[p].pace = "full"
        /\ result[p].allowed = FALSE
        /\ Len(audit_log) > 1

\* C5: when the permission check passes, dispatch appends one non-blocked
\* 'dispatching' row, then invokes the external agent exactly once, then
\* appends one non-blocked completion row, and returns the agent's result
\* with allowed:true; it appends no other row and does not retry the agent.
C5_AllowedDispatchOrder ==
    /\ \A p \in Calls :
        pc[p] = "calling" =>
            /\ Len(hist[p]) = 2
            /\ hist[p][1].ev = "log"
            /\ hist[p][2].ev = "callAgent"
            /\ RowOf(p, hist[p][1].id, 0)
            /\ audit_log[hist[p][1].id].detail[1] = "Dispatching to"
    /\ \A p \in Calls :
        (pc[p] = "returned" /\ Permitted(p)) =>
            /\ Len(hist[p]) = 4
            /\ hist[p][1].ev = "log"
            /\ hist[p][2].ev = "callAgent"
            /\ hist[p][3].ev \in AgentOutcomes
            /\ hist[p][4].ev = "log"
            /\ hist[p][1].id < hist[p][4].id
            /\ RowOf(p, hist[p][1].id, 0)
            /\ audit_log[hist[p][1].id].detail[1] = "Dispatching to"
            /\ RowOf(p, hist[p][4].id, 0)
            /\ audit_log[hist[p][4].id].detail[1] =
                   (IF hist[p][3].ev = "answer" THEN "Completed on" ELSE "Failed on")
            /\ result[p].allowed = TRUE
            /\ result[p].ok = (hist[p][3].ev = "answer")
            /\ result[p].response =
                   (IF hist[p][3].ev = "answer" THEN "agent text" ELSE NULL)
            /\ result[p].node = seen[p].targetNode
    \* no row of the log is left unaccounted for
    /\ \A i \in DOMAIN audit_log :
           Cardinality({p \in Calls : i \in LoggedBy(p)}) = 1

C5_Witness ==
    \E p \in Calls :
        /\ pc[p] = "returned"
        /\ result[p].allowed = TRUE
        /\ result[p].ok = TRUE
        /\ Len(hist[p]) = 4
        /\ hist[p][4].id > hist[p][1].id + 1

\* C6: every allowed dispatch terminates even when the external agent call
\* fails: a call awaiting the agent can always resume, it returns ok:false
\* with allowed:true and an error string, and exactly one of its audit rows
\* records the failure; every blocked dispatch leaves exactly one audit row,
\* which records the block.
C6_FailuresCapturedAndLogged ==
    \A p \in Calls :
        /\ pc[p] = "calling" => ENABLED (\E o \in AgentOutcomes : dispatchResume(p, o))
        /\ (pc[p] = "returned" /\ Rejected(p)) =>
              /\ result[p].ok = FALSE
              /\ result[p].allowed = TRUE
              /\ result[p].error # NULL
              /\ Cardinality({i \in LoggedBy(p) :
                               audit_log[i].detail[1] = "Failed on"}) = 1
              /\ \A i \in LoggedBy(p) :
                     audit_log[i].detail[1] = "Failed on" =>
                         /\ RowOf(p, i, 0)
                         /\ audit_log[i].detail[3] = result[p].error
        /\ (pc[p] = "returned" /\ result[p].allowed = FALSE) =>
              /\ Cardinality(LoggedBy(p)) = 1
              /\ \A i \in LoggedBy(p) :
                     /\ RowOf(p, i, 1)
                     /\ audit_log[i].detail[1] = "Blocked by allowlist"

C6_Witness ==
    \E p, q \in Calls :
        /\ pc[p] = "returned"
        /\ Rejected(p)
        /\ result[p].ok = FALSE
        /\ pc[q] = "returned"
        /\ result[q].allowed = FALSE

----------------------------------------------------------------------------
(* Claims about the gateway's safety nets, checked under SpecNets *)

\* the agent calls the gateway has dispatched for an agent (the clock of
\* SpecNets stands still, so all of them lie within the last hour)
Dispatched(log, a) ==
    Cardinality({i \in DOMAIN log :
                    /\ log[i].agent = a
                    /\ log[i].detail[1] = "Dispatching to"})

\* C7: dispatch enforces the budget ceiling: when the spend of the trailing
\* 24 hours has reached the ceiling (isWithinBudget is false) at the time of
\* a dispatch, the dispatch is blocked and the external agent is not invoked.
C7_BudgetCeilingEnforced ==
    [][\A p \in Calls :
          (pc[p] = "idle" /\ pc'[p] = "calling") => isWithinBudget]_vars

\* C8: every agent call made through dispatch is counted as usage and
\* followed by an anomaly check: once the calls dispatched for one agent
\* within one hour exceed maxCallsPerAgentPerHour, the pace is pause by the
\* time the exceeding dispatch has returned.
C8_DispatchCountedAndChecked ==
    [][\A p \in Calls :
          (pc[p] = "calling" /\ pc'[p] = "returned") =>
              /\ Len(api_usage') = Len(api_usage) + 1
              /\ Dispatched(audit_log', seen[p].agentName)
                     > getAnomalyThresholds.maxCallsPerAgentPerHour
                 => system_state'.pace = "pause"]_vars

----------------------------------------------------------------------------
(* Claims about the anomaly detector, checked under SpecAnomaly and SpecRuleA *)

\* the rows a step has appended to the audit log
Appended == SubSeq(audit_log', Len(audit_log) + 1, Len(audit_log'))

\* C9: if checkAnomalies finds at least one anomaly, then after the call the
\* pace is pause, the mode is unchanged, exactly one audit row per anomaly
\* has been appended (agent anomaly-detector, action auto_pause, not
\* blocked) and autoPaused is true; if it finds none, pace, mode and audit
\* log are unchanged and autoPaused is false. It never sets the pace to stop.
C9_CheckAnomaliesEffects ==
    [][checkAnomalies =>
          LET r == checkAnomaliesReturn
              n == Len(r.anomalies)
          IN  /\ n > 0 =>
                    /\ system_state'.pace = "pause"
                    /\ r.autoPaused = TRUE
                    /\ Len(audit_log') = Len(audit_log) + n
                    /\ SubSeq(audit_log', 1, Len(audit_log)) = audit_log
                    /\ \A k \in 1..n :
                          /\ Appended[k].agent = "anomaly-detector"
                          /\ Appended[k].action = "auto_pause"
                          /\ Appended[k].blocked = 0
                          /\ Appended[k].detail[1] = r.anomalies[k].type
                          /\ Appended[k].detail[2] = r.anomalies[k].agent
              /\ n = 0 =>
                    /\ system_state'.pace = system_state.pace
                    /\ audit_log' = audit_log
                    /\ r.autoPaused = FALSE
              /\ system_state'.mode = system_state.mode
              /\ system_state'.pace = "stop" => (n = 0 /\ system_state.pace = "stop")
      ]_vars

C9_Witness ==
    /\ system_state.pace = "pause"
    /\ system_state.mode = "sleep"
    /\ Len(audit_log) >= 2
    /\ \E i \in 1..(Len(audit_log) - 1) :
          /\ audit_log[i].agent = "anomaly-detector"
          /\ audit_log[i + 1].agent = "anomaly-detector"
          /\ audit_log[i].detail[1] = "excessive_calls"
          /\ audit_log[i + 1].detail[1] = "consecutive_failures"

\* usage rows of an agent created within the last hour
RecentCalls(a) ==
    Cardinality({i \in DOMAIN api_usage :
                    /\ api_usage[i].agent = a
                    /\ now - api_usage[i].created_at <= HourWindow})

\* C10 (rule A): checkAnomalies reports exactly one excessive_calls anomaly
\* for each agent whose number of usage rows created within the last hour is
\* strictly greater than maxCallsPerAgentPerHour, and none for an agent whose
\* count is equal to the threshold or below it; older rows are not counted.
\* Stated of the value checkAnomalies returns when called in any reachable state.
C10_ExcessiveCallsRule ==
    \A a \in {SortedAgents[k] : k \in DOMAIN SortedAgents} :
        LET reported == {k \in DOMAIN checkAnomaliesReturn.anomalies :
                            /\ checkAnomaliesReturn.anomalies[k].type = "excessive_calls"
                            /\ checkAnomaliesReturn.anomalies[k].agent = a}
        IN  Cardinality(reported) =
               IF RecentCalls(a) > system_state.max_calls_per_agent_per_hour
               THEN 1 ELSE 0

C10_Witness ==
    /\ Len(audit_log) > 0
    /\ audit_log[Len(audit_log)].agent = "anomaly-detector"
    /\ audit_log[Len(audit_log)].detail = <<"excessive_calls", "custom-agent", 2, 1>>
    /\ system_state.max_calls_per_agent_per_hour = 1
    /\ RecentCalls("custom-agent") = 2
    /\ RecentCalls("openclaw:scan@pi1") = 0

\* blocked audit rows of an agent, wherever they lie in the log
BlockedRows(a) ==
    Cardinality({i \in DOMAIN audit_log :
                    audit_log[i].agent = a /\ audit_log[i].blocked = 1})

----------------------------------------------------------------------------
(* Claims about the proposal store, checked under SpecProposals *)

\* titles that are equal when case is ignored
EqualIgnoringCase(a, b) == a = b \/ {a, b} = {"Add favicon", "Add Favicon"}

\* the stored proposals of the same domain whose title equals the input's,
\* case ignored
SameDomainAndTitle(in) ==
    {i \in DOMAIN proposals :
        /\ proposals[i].domain = in.domain
        /\ EqualIgnoringCase(proposals[i].title, in.title)}

\* C12: createProposal deduplicates: when a proposal of the same domain with a
\* case-insensitively equal title exists with status pending or greenlit,
\* createProposal returns that proposal (same id, flagged _deduplicated),
\* inserts no row and leaves every stored row, with its body, effort,
\* recommendation, source and status, exactly as first written.
C12_CreateDeduplicates ==
    \A in \in ProposalInputs :
        LET open == {i \in SameDomainAndTitle(in) :
                        proposals[i].status \in {"pending", "greenlit"}}
        IN  open # {} =>
               \A r \in createProposal(proposals, now, in) :
                   /\ r._deduplicated = TRUE
                   /\ r.row.id \in {proposals[i].id : i \in open}
                   /\ r.row = proposals[r.row.id]
                   /\ Len(r.table) = Len(proposals)
                   /\ r.table = proposals

\* a create with a title differing in case only was answered with the greenlit
\* proposal 1, whose body is still the first one
C12_Witness ==
    /\ propQ.op = "createProposal"
    /\ propQ.title = "Add Favicon"
    /\ propQ._deduplicated = TRUE
    /\ propQ.id = 1
    /\ Len(proposals) = 1
    /\ proposals[1].title = "Add favicon"
    /\ proposals[1].domain = "site"
    /\ proposals[1].body = "first body"
    /\ proposals[1].status = "greenlit"

\* what a create that inserts looks like: one new row, pending, under a new
\* id, returned without the _deduplicated flag
InsertsNew(in) ==
    \A r \in createProposal(proposals, now, in) :
        /\ r._deduplicated = FALSE
        /\ Len(r.table) = Len(proposals) + 1
        /\ SubSeq(r.table, 1, Len(proposals)) = proposals
        /\ r.row = r.table[Len(r.table)]
        /\ r.row.id \notin {proposals[i].id : i \in DOMAIN proposals}
        /\ r.row.status = "pending"
        /\ r.row.domain = in.domain
        /\ r.row.title = in.title
        /\ r.row.body = in.body

\* C13 as stated: creating a proposal with a different domain, or with the
\* same domain and title after the earlier proposal was resolved to any of
\* greenlit, modified, rejected, shelved, expired, shipped, inserts a new
\* pending row and returns a new id, not flagged as deduplicated.
C13_NewAfterAnyResolution ==
    \A in \in ProposalInputs :
        (\A i \in SameDomainAndTitle(in) :
            proposals[i].status \in {"greenlit", "modified", "rejected", "shelved",
                                     "expired", "shipped"})
        => InsertsNew(in)

\* C13, amended: creating a proposal with a different domain, or with the same
\* domain and title after the earlier proposal was resolved to modified,
\* rejected, shelved, expired or shipped, inserts a new pending row and
\* returns a new id, not flagged as deduplicated (a greenlit proposal is
\* still open and is deduplicated against).
C13_NewAfterClosingResolution ==
    \A in \in ProposalInputs :
        (\A i \in SameDomainAndTitle(in) :
            proposals[i].status \in {"modified", "rejected", "shelved", "expired",
                                     "shipped"})
        => InsertsNew(in)

\* proposal 1 was shelved and the same title, proposed again, became proposal 2
C13_Witness ==
    /\ propQ.op = "createProposal"
    /\ propQ._deduplicated = FALSE
    /\ propQ.id = 2
    /\ Len(proposals) = 2
    /\ proposals[1].domain = proposals[2].domain
    /\ EqualIgnoringCase(proposals[1].title, proposals[2].title)
    /\ proposals[1].status = "shelved"
    /\ proposals[2].status = "pending"

\* C14: a proposal's status changes at most once: once a resolve has moved it
\* to one of greenlit, modified, rejected, shelved, expired, shipped, no later
\* operation changes its status, resolved_at or resolution_note.
C14_StatusChangesOnce ==
    [][\A i \in DOMAIN proposals :
          proposals[i].status # "pending" =>
              /\ proposals'[i].status = proposals[i].status
              /\ proposals'[i].resolved_at = proposals[i].resolved_at
              /\ proposals'[i].resolution_note = proposals[i].resolution_note]_vars

\* C15: resolveProposal with a status outside greenlit, modified, rejected,
\* shelved, expired, shipped ('pending' included) throws an error naming the
\* invalid value and changes no proposal row.
C15_InvalidResolutionRejected ==
    \A id \in 1..(MaxProposals + 1), status \in StatusInputs :
        status \notin {"greenlit", "modified", "rejected", "shelved", "expired",
                       "shipped"}
        => LET r == resolveProposal(proposals, now, id, status, "because")
           IN  /\ r.threw = TRUE
               /\ \E k \in DOMAIN r.message : r.message[k] = status
               /\ r.table = proposals

\* a resolve threw and left the pending proposal 1 unresolved
C15_Witness ==
    /\ propQ.op = "resolveProposal"
    /\ propQ.threw = TRUE
    /\ Len(proposals) >= 1
    /\ proposals[1].status = "pending"
    /\ proposals[1].resolved_at = <<>>
    /\ proposals[1].resolution_note = NULL

----------------------------------------------------------------------------
(* Claims about the resolve route, checked under SpecResolveRoute *)

\* C16: resolveProposal with a valid status and an id that matches no
\* proposal returns an absent result without throwing and changes no row;
\* through the HTTP surface this yields 404 and appends no audit entry.
C16_ResolveMissingProposal ==
    \A id \in 1..(MaxProposals + 1), status \in VALID_RESOLUTIONS :
        (\A i \in DOMAIN proposals : proposals[i].id # id)
        => LET r == resolveProposal(proposals, now, id, status, NULL)
               h == postResolve(proposals, audit_log, now, id, status, NULL)
           IN  /\ r.threw = FALSE
               /\ r.ret = {}
               /\ r.table = proposals
               /\ h.code = 404
               /\ h.log = audit_log
               /\ h.table = proposals

\* the route answered 404 over a store that holds a proposal, after an
\* earlier resolve was logged, and the log still holds that one row only
C16_Witness ==
    /\ propQ.op = "POST resolve"
    /\ propQ.code = 404
    /\ Len(proposals) = 1
    /\ proposals[1].status = "greenlit"
    /\ Len(audit_log) = 1
    /\ audit_log[1].action = "resolve_proposal"

----------------------------------------------------------------------------
(* Claims about the proposal lifecycle, checked under SpecLifecycle *)

\* C17: a resolved proposal never reverts: once a proposal's status is
\* different from pending it is not pending in any later state, whatever
\* create, resolve, dispatch, tick and anomaly operations follow.
C17_ResolvedNeverReverts ==
    [][\A i \in DOMAIN proposals :
          proposals[i].status # "pending" => proposals'[i].status # "pending"]_vars

\* proposal 1 is still rejected after a resolve that threw, with the
\* scheduler, the gateway and the anomaly detector all in the audit log
C17_Witness ==
    /\ Len(proposals) >= 1
    /\ proposals[1].status = "rejected"
    /\ propQ.op = "resolveProposal"
    /\ propQ.threw = TRUE
    /\ \E i \in DOMAIN audit_log : audit_log[i].agent = "sleep-scheduler"
    /\ \E i \in DOMAIN audit_log : audit_log[i].agent = "anomaly-detector"
    /\ \E p \in Calls : pc[p] = "returned"

----------------------------------------------------------------------------
(* Claims about the sleep scheduler, checked under SpecSched and SpecWindow *)

\* minutes since midnight of a time of day
Minutes(x) == 60 * x.h + x.m

\* the window test as the claims state it, on minutes since midnight
InWindow(time, start, end) ==
    IF start <= end THEN start <= time /\ time < end
                    ELSE time >= start \/ time < end

\* is the Date d inside the stored sleep window
InStoredWindow(d) ==
    InWindow(60 * d.hours + d.minutes,
             Minutes(system_state.sleep_start), Minutes(system_state.sleep_end))

\* the row tick appends on a transition
IsSchedulerRow(row) ==
    /\ row.agent = "sleep-scheduler"
    /\ row.action = "set_mode"
    /\ row.domain = "system"
    /\ row.blocked = 0

\* C18: tick(now): inside the stored sleep window with mode awake it sets
\* mode sleep, appends exactly one audit row (sleep-scheduler, set_mode,
\* system, not blocked) and returns true; outside the window with mode sleep
\* it sets mode awake, appends one such row and returns true; otherwise it
\* returns false and changes neither mode nor audit log. It never changes pace.
C18_TickTransitions ==
    \A d \in TickTimes :
        LET r == tick(system_state, audit_log, d)
            transition(to) ==
                /\ r.ret = TRUE
                /\ r.state.mode = to
                /\ Len(r.log) = Len(audit_log) + 1
                /\ SubSeq(r.log, 1, Len(audit_log)) = audit_log
                /\ IsSchedulerRow(r.log[Len(r.log)])
        IN  /\ (InStoredWindow(d) /\ system_state.mode = "awake") => transition("sleep")
            /\ (~InStoredWindow(d) /\ system_state.mode = "sleep") => transition("awake")
            /\ (InStoredWindow(d) <=> system_state.mode = "sleep") =>
                   /\ r.ret = FALSE
                   /\ r.state.mode = system_state.mode
                   /\ r.log = audit_log
            /\ r.state.pace = system_state.pace
            /\ [r.state EXCEPT !.mode = system_state.mode] = system_state

\* a tick has put the stopped system to sleep and logged it
C18_Witness ==
    /\ tickQ.called
    /\ tickQ.ret = TRUE
    /\ tickQ.inside = TRUE
    /\ system_state.mode = "sleep"
    /\ system_state.pace = "stop"
    /\ Len(audit_log) = 1
    /\ IsSchedulerRow(audit_log[1])

\* C19: tick is idempotent: after a tick, with no setMode or schedule change
\* since, a tick at a time on the same side of the window boundary returns
\* false, leaves the mode unchanged and appends no audit row.
C19_TickIdempotent ==
    (tickQ.called /\ tickQ.fresh) =>
        \A d \in TickTimes :
            (InStoredWindow(d) <=> tickQ.inside) =>
                LET r == tick(system_state, audit_log, d)
                IN  /\ r.ret = FALSE
                    /\ r.state = system_state
                    /\ r.log = audit_log

\* the last tick, inside the window, returned false: the one before it had
\* made the transition, which is the only row of the log
C19_Witness ==
    /\ tickQ.called
    /\ tickQ.fresh
    /\ tickQ.inside = TRUE
    /\ tickQ.ret = FALSE
    /\ system_state.mode = "sleep"
    /\ Len(audit_log) = 1
    /\ IsSchedulerRow(audit_log[1])

\* what isInSleepWindow returned is what the two-branch rule gives
WindowRule ==
    windowQ.result = InWindow(Minutes(windowQ.timeStr), Minutes(windowQ.sleepStart),
                              Minutes(windowQ.sleepEnd))

\* C20 as stated: isInSleepWindow(time, start, end) on minutes since midnight:
\* when start <= end it is true iff start <= time < end, when start > end iff
\* time >= start or time < end; in both branches the start minute is inside
\* the window and the end minute is outside it.
C20_WindowBoundaries ==
    windowQ.called =>
        /\ WindowRule
        /\ isInSleepWindow(windowQ.sleepStart, windowQ.sleepStart, windowQ.sleepEnd) = TRUE
        /\ isInSleepWindow(windowQ.sleepEnd, windowQ.sleepStart, windowQ.sleepEnd) = FALSE

\* C20, amended: the same two-branch rule; the end minute is outside the
\* window in both branches, and the start minute is inside it unless start
\* equals end, where the window is empty.
C20_WindowBoundariesUnlessEmpty ==
    windowQ.called =>
        /\ WindowRule
        /\ Minutes(windowQ.sleepStart) # Minutes(windowQ.sleepEnd) =>
               isInSleepWindow(windowQ.sleepStart, windowQ.sleepStart, windowQ.sleepEnd) = TRUE
        /\ Minutes(windowQ.sleepStart) = Minutes(windowQ.sleepEnd) =>
               isInSleepWindow(windowQ.timeStr, windowQ.sleepStart, windowQ.sleepEnd) = FALSE
        /\ isInSleepWindow(windowQ.sleepEnd, windowQ.sleepStart, windowQ.sleepEnd) = FALSE

\* the start minute of a window that wraps midnight was found inside it
C20_Witness ==
    /\ windowQ.called
    /\ windowQ.timeStr = HHMM(23, 0)
    /\ windowQ.sleepStart = HHMM(23, 0)
    /\ windowQ.sleepEnd = HHMM(8, 0)
    /\ windowQ.result = TRUE

----------------------------------------------------------------------------
(* Claims about the audit log under interleaving, checked under SpecAudit *)

\* C21: the audit log is append-only under every interleaving of overlapping
\* dispatches, scheduler ticks, anomaly checks and API calls: every step
\* keeps each existing row as it is, gives each appended row an id strictly
\* greater than every id before it in the log, and for every allowed
\* dispatch that has returned the id of its 'Dispatching to' row is smaller
\* than the id of its completion row.
C21_AuditAppendOnly ==
    [][/\ Len(audit_log') >= Len(audit_log)
       /\ \A i \in DOMAIN audit_log : audit_log'[i] = audit_log[i]
       /\ \A i \in DOMAIN audit_log' \ DOMAIN audit_log :
             \A j \in 1..(i - 1) : audit_log'[i].id > audit_log'[j].id
       /\ \A p \in Calls :
             (pc'[p] = "returned" /\ Len(hist'[p]) = 4) =>
                 /\ audit_log'[hist'[p][1].id].detail[1] = "Dispatching to"
                 /\ audit_log'[hist'[p][4].id].detail[1] \in {"Completed on", "Failed on"}
                 /\ audit_log'[hist'[p][1].id].id < audit_log'[hist'[p][4].id].id]_vars

\* two allowed dispatches overlap: the second starts and completes between
\* the first one's two rows
C21_Witness ==
    /\ Len(audit_log) = 4
    /\ \A p \in Calls : pc[p] = "returned" /\ Len(hist[p]) = 4
    /\ hist[1][1].id = 1 /\ hist[2][1].id = 2
    /\ hist[2][4].id = 3 /\ hist[1][4].id = 4
    /\ \A i \in 1..3 : audit_log[i].id < audit_log[i + 1].id

\* rows of the scheduler, the anomaly detector and the HTTP layer share the log
C21_WitnessMixed ==
    /\ \E i \in DOMAIN audit_log : audit_log[i].agent = "api"
    /\ \E i \in DOMAIN audit_log : audit_log[i].agent = "anomaly-detector"
    /\ \E i \in DOMAIN audit_log : audit_log[i].agent = "sleep-scheduler"
    /\ \E i \in DOMAIN audit_log : audit_log[i].blocked = 1

----------------------------------------------------------------------------
(* Claims about the pace and mode switches, checked under SpecPace *)

\* C22: in every reachable state the stored pace is one of full, slow,
\* pause, stop and the stored mode is one of awake, sleep; setPace and
\* setMode called with any other value, the empty string included, throw an
\* error that names the value and the allowed set, and leave the store as it
\* is (POST /pace and POST /mode answer 400 with that error).
C22_PaceAndModeValidated ==
    /\ system_state.pace \in {"full", "slow", "pause", "stop"}
    /\ system_state.mode \in {"awake", "sleep"}
    /\ \A p \in PaceInputs \cup {""} :
          p \notin {"full", "slow", "pause", "stop"} =>
              /\ setPaceThrows(p)
              /\ setPaceError(p)[2] = p
              /\ setPaceError(p)[4] = {"full", "slow", "pause", "stop"}
              /\ setPace(system_state, p) = system_state
    /\ \A m \in ModeInputs \cup {""} :
          m \notin {"awake", "sleep"} =>
              /\ setModeThrows(m)
              /\ setModeError(m)[2] = m
              /\ setModeError(m)[4] = {"awake", "sleep"}
              /\ setMode(system_state, m) = system_state
    /\ (httpQ.route = "POST /pace" /\ httpQ.arg[1] \notin {"", "full", "slow", "pause", "stop"})
          => (httpQ.code = 400 /\ httpQ.body = setPaceError(httpQ.arg[1]))
    /\ (httpQ.route = "POST /mode" /\ httpQ.arg[1] \notin {"", "awake", "sleep"})
          => (httpQ.code = 400 /\ httpQ.body = setModeError(httpQ.arg[1]))

\* the pace was set to full, then an unknown pace was refused
C22_Witness ==
    /\ httpQ.route = "POST /pace"
    /\ httpQ.arg = <<"turbo">>
    /\ httpQ.code = 400
    /\ httpQ.body[1] = "Invalid pace:"
    /\ system_state.pace = "full"
    /\ system_state.mode = "sleep"

----------------------------------------------------------------------------
(* Claims about what may change the mode, checked under SpecFrame *)

\* C23: the mode changes only in a setMode call or in a scheduler tick:
\* dispatch (blocked, succeeded or failed), checkAnomalies, setPace, the
\* proposal operations, the budget operations and logAction all leave the
\* stored mode unchanged.
C23_ModeChangesOnlyBySetModeOrTick ==
    [][(system_state'.mode # system_state.mode) =>
          \/ \E m \in VALID_MODES : SetMode(m)
          \/ \E d \in TickTimes : Tick(d)]_vars

\* the scheduler has put the system to sleep; a dispatch was blocked, the
\* detector has auto-paused, usage and a proposal are on record
C23_Witness ==
    /\ system_state.mode = "sleep"
    /\ \E i \in DOMAIN audit_log : audit_log[i].agent = "sleep-scheduler"
    /\ \E i \in DOMAIN audit_log : audit_log[i].agent = "anomaly-detector"
    /\ \E p \in Calls : pc[p] = "returned"
    /\ Len(api_usage) > 0
    /\ Len(proposals) > 0 /\ proposals[1].status = "greenlit"
    /\ system_state.budget_ceiling = Num(1)

----------------------------------------------------------------------------
(* Claims about the budget tracker, checked under SpecBudget and SpecUsage *)

\* the usage rows created within the 24 hours before now
InLastDay == {i \in DOMAIN api_usage : now - api_usage[i].created_at <= 24}

RECURSIVE CostOf(_)
CostOf(S) ==
    IF S = {} THEN 0
    ELSE LET i == CHOOSE j \in S : TRUE IN api_usage[i].cost + CostOf(S \ {i})

\* C24: isWithinBudget is true iff the total cost of the trailing 24 hours
\* is strictly less than the ceiling (spend equal to the ceiling is not
\* within budget); getBudgetStatus reports the same verdict in withinBudget
\* and remaining = max(0, ceiling - spent), never a negative number. (A
\* ceiling that is NaN compares false with every spend, and remaining is
\* then NaN.)
C24_BudgetVerdict ==
    LET c == system_state.budget_ceiling
        spent == CostOf(InLastDay)
        left == Twice(c) - 2 * spent
        status == getBudgetStatus
    IN  /\ status.withinBudget = isWithinBudget
        /\ ~c.nan =>
              /\ isWithinBudget <=> 2 * spent < Twice(c)
              /\ ~status.remaining.nan
              /\ Twice(status.remaining) = (IF left > 0 THEN left ELSE 0)
              /\ Twice(status.remaining) >= 0
        /\ c.nan => (~isWithinBudget /\ status.remaining.nan)
        /\ httpQ.route = "GET /budget" =>
              /\ httpQ.body.withinBudget = Lt(httpQ.body.spent, httpQ.body.ceiling)
              /\ ~httpQ.body.ceiling.nan =>
                    Twice(httpQ.body.remaining) >= 0

\* the spend of the last day equals the ceiling and the verdict is no
C24_Witness ==
    /\ system_state.budget_ceiling = Num(2)
    /\ CostOf(InLastDay) = 2
    /\ Len(api_usage) = 2
    /\ ~isWithinBudget
    /\ httpQ.route = "GET /budget"
    /\ httpQ.body.withinBudget = FALSE
    /\ httpQ.body.remaining = Num(0)
    /\ httpQ.body.spent = Num(2)

\* C25: getUsage24h returns the sum of cost and the count of exactly those
\* usage records created within the 24 hours before the query time: each
\* recordUsage raises callCount by one and totalCost by its cost, no record
\* is ever deleted, and a record older than 24 hours is not counted.
C25_Usage24h ==
    [][/\ getUsage24h'.callCount = Cardinality(InLastDay')
       /\ getUsage24h'.totalCost = CostOf(InLastDay)'
       /\ \A i \in DOMAIN api_usage : api_usage'[i] = api_usage[i]
       /\ Len(api_usage') > Len(api_usage) =>
             /\ Len(api_usage') = Len(api_usage) + 1
             /\ getUsage24h'.callCount = getUsage24h.callCount + 1
             /\ getUsage24h'.totalCost =
                    getUsage24h.totalCost + api_usage'[Len(api_usage')].cost]_vars

\* one record has aged out of the window, one is exactly 24 hours old
C25_Witness ==
    /\ Len(api_usage) = 2
    /\ now - api_usage[1].created_at = 25
    /\ now - api_usage[2].created_at = 24
    /\ getUsage24h = [totalCost |-> api_usage[2].cost, callCount |-> 1]

----------------------------------------------------------------------------
(* Claims about the configuration setters, checked under SpecConfig *)

\* C26: the configuration setters reject bad values with no state change:
\* setCeiling accepts only a positive number, setCostPerCall only a
\* non-negative number, setAnomalyThreshold only a positive integer for one
\* of the two known keys; hence in every reachable state the stored budget
\* ceiling is a positive number, the cost per call is a non-negative number
\* and both anomaly thresholds are positive integers.
C26_ConfigValuesValid ==
    /\ ~system_state.budget_ceiling.nan
    /\ Twice(system_state.budget_ceiling) > 0
    /\ ~system_state.budget_cost_per_call.nan
    /\ Twice(system_state.budget_cost_per_call) >= 0
    /\ system_state.max_calls_per_agent_per_hour \in Nat \ {0}
    /\ system_state.max_consecutive_failures \in Nat \ {0}

\* the part of C26 about the anomaly thresholds alone: they stay positive
\* integers, and a refused value or key leaves the store as it is
C26_ThresholdsValid ==
    /\ system_state.max_calls_per_agent_per_hour \in Nat \ {0}
    /\ system_state.max_consecutive_failures \in Nat \ {0}
    /\ \A k \in VALID_THRESHOLDS \cup {"fake_key"}, v \in NumberInputs \cup {Half(1)} :
          (k = "fake_key" \/ v \in {NaN, Num(-1), Num(0), Half(1)}) =>
              setAnomalyThreshold(system_state, k, v) = system_state

----------------------------------------------------------------------------
(* Claims about the audit trail of state changes, checked under SpecReplay *)

\* pace, mode and the thresholds as the rows of an audit log tell them,
\* starting from the seeded defaults
RECURSIVE Replay(_, _)
Replay(log, acc) ==
    IF log = <<>> THEN acc
    ELSE LET r == Head(log)
             next ==
                 IF r.agent = "api" /\ r.action = "set_pace"
                     THEN [acc EXCEPT !.pace = r.detail[2]]
                 ELSE IF r.agent = "api" /\ r.action = "set_mode"
                     THEN [acc EXCEPT !.mode = r.detail[2]]
                 ELSE IF r.agent = "api" /\ r.action = "set_anomaly_threshold"
                     THEN [acc EXCEPT ![r.detail[1]] = Number(r.detail[3]).v]
                 ELSE IF r.agent = "anomaly-detector"
                     THEN [acc EXCEPT !.pace = "pause"]
                 ELSE IF r.agent = "sleep-scheduler"
                     THEN [acc EXCEPT !.mode =
                              IF r.detail[1] = "Auto-transition to sleep at"
                              THEN "sleep" ELSE "awake"]
                 ELSE acc
         IN  Replay(Tail(log), next)

Seeded ==
    [pace |-> "pause", mode |-> "awake",
     max_calls_per_agent_per_hour |-> 20, max_consecutive_failures |-> 5]

Audited(st) ==
    [pace |-> st.pace, mode |-> st.mode,
     max_calls_per_agent_per_hour |-> st.max_calls_per_agent_per_hour,
     max_consecutive_failures |-> st.max_consecutive_failures]

\* a handler's outcome: either one more row, by agent api, or nothing at all
OneApiRowOrNothing(r) ==
    /\ r.code \in {200, 400}
    /\ r.code = 200 =>
          /\ Len(r.log) = Len(audit_log) + 1
          /\ SubSeq(r.log, 1, Len(audit_log)) = audit_log
          /\ r.log[Len(r.log)].agent = "api"
          /\ Audited(r.state) = Replay(r.log, Seeded)
    /\ r.code = 400 => (r.state = system_state /\ r.log = audit_log)

\* C27: every change of pace, mode or an anomaly threshold is
\* reconstructable from the audit log: replaying the log from the seeded
\* defaults gives the stored pace, mode and thresholds; each successful POST
\* /pace, POST /mode and POST /anomalies/threshold appends exactly one row
\* with agent api in the same request, scheduler transitions and auto-pauses
\* leave rows of sleep-scheduler and anomaly-detector; a request rejected
\* for an invalid value changes neither the state nor the audit log.
C27_ChangesAreAudited ==
    /\ Audited(system_state) = Replay(audit_log, Seeded)
    /\ \A pace \in PaceInputs \cup {""} :
          /\ OneApiRowOrNothing(postPace(system_state, audit_log, pace))
          /\ postPace(system_state, audit_log, pace).code = 200
                <=> pace \in {"full", "slow", "pause", "stop"}
    /\ \A mode \in ModeInputs \cup {""} :
          /\ OneApiRowOrNothing(postMode(system_state, audit_log, mode))
          /\ postMode(system_state, audit_log, mode).code = 200
                <=> mode \in {"awake", "sleep"}
    /\ \A k \in {"max_consecutive_failures", "", "fake_key"},
          v \in {"", "0", "1", "1.5", "abc"} :
          /\ OneApiRowOrNothing(postThreshold(system_state, audit_log, k, v))
          /\ postThreshold(system_state, audit_log, k, v).code = 200
                <=> (k = "max_consecutive_failures" /\ v = "1")
    /\ httpQ.code = 200 =>
          \E i \in DOMAIN audit_log :
              audit_log[i].agent = "api" /\ audit_log[i].detail[2] \in {httpQ.arg[1], "set to"}

\* the pace was set over HTTP, the threshold lowered, the detector has
\* auto-paused, and the last request, an unknown pace, was refused
C27_Witness ==
    /\ Len(audit_log) = 4
    /\ audit_log[1].agent = "api" /\ audit_log[1].action = "set_pace"
    /\ audit_log[2].agent = "api" /\ audit_log[2].action = "set_anomaly_threshold"
    /\ audit_log[3].agent = "rogue-agent"
    /\ audit_log[4].agent = "anomaly-detector"
    /\ system_state.pace = "pause"
    /\ system_state.max_consecutive_failures = 1
    /\ httpQ.route = "POST /pace" /\ httpQ.arg = <<"turbo">> /\ httpQ.code = 400

\* the scheduler's transition is on record
C27_WitnessScheduler ==
    /\ system_state.mode = "sleep"
    /\ audit_log # <<>>
    /\ audit_log[Len(audit_log)].agent = "sleep-scheduler"

----------------------------------------------------------------------------
(* Claims about initialization, checked under SpecStore *)

EightKeys ==
    {"pace", "mode", "sleep_start", "sleep_end", "budget_ceiling",
     "budget_cost_per_call", "max_calls_per_agent_per_hour", "max_consecutive_failures"}

\* the rows of the store with the keys in K
Rows(K) == [k \in K |-> system_state[k]]

\* C28: initialization seeds the eight defaults only where a key is absent:
\* on a fresh store pace = pause and mode = awake; initializing again on a
\* store that already holds values (a restart) keeps every stored value, so
\* a pace of stop set before a restart is still stop after it, and all
\* eight keys are present in every reachable state.
C28_SeedsOnlyAbsentKeys ==
    /\ DOMAIN system_state = EightKeys
    /\ DOMAIN createDb(EmptyStore) = EightKeys
    /\ createDb(EmptyStore).pace = "pause"
    /\ createDb(EmptyStore).mode = "awake"
    /\ createDb(EmptyStore).sleep_start = HHMM(23, 0)
    /\ createDb(EmptyStore).sleep_end = HHMM(8, 0)
    /\ createDb(EmptyStore).budget_ceiling = Num(5000)
    /\ createDb(EmptyStore).budget_cost_per_call = Num(1)
    /\ createDb(EmptyStore).max_calls_per_agent_per_hour = 20
    /\ createDb(EmptyStore).max_consecutive_failures = 5
    /\ \A k \in EightKeys : createDb(system_state)[k] = system_state[k]
    /\ \A K \in SUBSET EightKeys :
          \A k \in EightKeys :
              createDb(Rows(K))[k] =
                  IF k \in K THEN system_state[k] ELSE createDb(EmptyStore)[k]
    /\ httpQ.route = "createDb" => httpQ.body[1] \in VALID_PACES

\* the pace was stop before the restart; the rows read after it say stop
C28_Witness ==
    /\ httpQ.route = "createDb"
    /\ httpQ.body = <<"stop", "sleep">>
    /\ system_state.pace = "stop"
    /\ system_state.mode = "sleep"
    /\ system_state.budget_ceiling = Num(1)

----------------------------------------------------------------------------
(* Claims about listing proposals, checked under SpecList *)

\* the proposals that pass the filters
Listed(status, domain) ==
    {i \in DOMAIN proposals :
        /\ (status # "" => proposals[i].status = status)
        /\ (domain # "" => proposals[i].domain = domain)}

\* the lists a query with these parameters may return now
Lists(status, domain, limit) == listProposals(proposals, status, domain, limit)

ListFilters == {"", "pending", "greenlit"} \X {"", "site", "music"} \X {0, 1, 2}

\* C29: listProposals returns exactly the proposals that match every given
\* filter (status and domain are AND-combined), ordered
\* most-recent-created-first - a proposal created later never comes after
\* one created earlier - and truncated to the first `limit` entries of that
\* order when a limit is given.
C29_ListNewestFirst ==
    \A q \in ListFilters : \A ids \in Lists(q[1], q[2], q[3]) :
        LET all == Listed(q[1], q[2])
        IN  /\ \A k \in DOMAIN ids : ids[k] \in all
            /\ \A a, b \in DOMAIN ids : a < b => ids[a] > ids[b]
            /\ Len(ids) = IF q[3] # 0 /\ q[3] < Cardinality(all)
                           THEN q[3] ELSE Cardinality(all)
            /\ \A i \in all :
                  (\A k \in DOMAIN ids : ids[k] # i) =>
                      \A k \in DOMAIN ids : ids[k] > i

\* what the query does guarantee: the matching rows, a row with a later
\* creation second before a row with an earlier one, cut to the limit
C29_ListNewestSecondFirst ==
    \A q \in ListFilters : \A ids \in Lists(q[1], q[2], q[3]) :
        LET all == Listed(q[1], q[2])
        IN  /\ \A k \in DOMAIN ids : ids[k] \in all
            /\ \A a, b \in DOMAIN ids : a # b => ids[a] # ids[b]
            /\ \A a, b \in DOMAIN ids :
                  a < b => proposals[ids[a]].created_at >= proposals[ids[b]].created_at
            /\ Len(ids) = IF q[3] # 0 /\ q[3] < Cardinality(all)
                           THEN q[3] ELSE Cardinality(all)
            /\ \A i \in all :
                  (\A k \in DOMAIN ids : ids[k] # i) =>
                      \A k \in DOMAIN ids :
                          proposals[ids[k]].created_at >= proposals[i].created_at

\* two proposals of one second listed oldest first
C29_Tie ==
    /\ httpQ.route = "GET /proposals"
    /\ httpQ.body = <<1, 2>>
    /\ Len(proposals) = 2
    /\ proposals[1].created_at = proposals[2].created_at

----------------------------------------------------------------------------
(* Claims about the topic rotation, checked under SpecDossier *)

\* whether a topic has a dossier entry created within the last 7 days
ResearchedThisWeek(id) ==
    \E i \in DOMAIN dossier_entries :
        /\ dossier_entries[i].topic_id = id
        /\ now - dossier_entries[i].created_at <= 7 * 24

Configured == {"licensing-strategies", "revenue-diversification"}

\* C30: pickNextTopic avoids recently researched topics: whenever at least
\* one configured topic has no dossier entry created within the last 7
\* days, pickNextTopic returns such a topic and never one that has an entry
\* in that window.
C30_PicksUnresearchedTopic ==
    (\E id \in Configured : ~ResearchedThisWeek(id)) =>
        /\ pickNextTopic(dossier_entries, now) # {}
        /\ \A topic \in pickNextTopic(dossier_entries, now) :
              topic \in Configured /\ ~ResearchedThisWeek(topic)

\* one topic was researched eight days ago, the other today: the pick is
\* the one whose entry has aged out
C30_Witness ==
    /\ Len(dossier_entries) = 2
    /\ dossier_entries[1].topic_id = "licensing-strategies"
    /\ now - dossier_entries[1].created_at = 8 * 24
    /\ dossier_entries[2].topic_id = "revenue-diversification"
    /\ dossier_entries[2].created_at = now
    /\ httpQ.route = "pickNextTopic"
    /\ httpQ.arg = <<now>>
    /\ httpQ.body = <<"licensing-strategies">>

----------------------------------------------------------------------------
(* Claims about the auto-pause, checked under SpecAnomaly, SpecAutoPause and SpecReset *)

\* C31: the anomaly detector never makes the system more permissive: for
\* every action, if isAllowed was false for the stored mode and pace before
\* a checkAnomalies call, it is false after it; in particular a pace of stop
\* is still stop after any checkAnomalies call.
C31_NeverMorePermissive ==
    [][checkAnomalies =>
          /\ \A a \in ActionInputs :
                ~isAllowed(system_state.mode, a, system_state.pace)
                    => ~isAllowed(system_state'.mode, a, system_state'.pace)
          /\ system_state.pace = "stop" => system_state'.pace = "stop"]_vars

\* the detector has turned an operator's stop into pause: scan is allowed again
C31_StopLifted ==
    /\ system_state.pace = "pause"
    /\ system_state.mode = "awake"
    /\ audit_log # <<>>
    /\ audit_log[Len(audit_log)].agent = "anomaly-detector"
    /\ isAllowed(system_state.mode, "scan", system_state.pace)

\* the detector has auto-paused and no operator has set the pace since
AutoPaused ==
    \E i \in DOMAIN audit_log :
        /\ audit_log[i].agent = "anomaly-detector"
        /\ audit_log[i].action = "auto_pause"
        /\ \A j \in DOMAIN audit_log :
              j > i => ~(audit_log[j].agent = "api" /\ audit_log[j].action = "set_pace")

\* C32: an auto-pause restrains the agents: from the moment checkAnomalies
\* returns autoPaused = true until an operator changes the pace, every
\* dispatch whose action is not scan is blocked and does not invoke the
\* external agent, in mode awake and in mode sleep alike.
C32_AutoPauseRestrains ==
    [][\A p \in Calls :
          (AutoPaused /\ pc[p] = "idle" /\ pc'[p] # "idle" /\ task'[p].action # "scan")
              => /\ pc'[p] = "returned"
                 /\ result'[p].allowed = FALSE
                 /\ \A k \in DOMAIN hist'[p] : hist'[p][k].ev # "callAgent"]_vars

\* after an auto-pause, asleep, a research dispatch has reached the agent
C32_ResearchRunsWhilePaused ==
    /\ AutoPaused
    /\ system_state.pace = "pause"
    /\ system_state.mode = "sleep"
    /\ \E p \in Calls :
          /\ pc[p] = "calling"
          /\ task[p].action = "research"
          /\ seen[p].pace = "pause"

\* an operator has set the pace back to full after an auto-pause, and since
\* then no blocked audit row and no usage record has been added
ResetSinceAutoPause ==
    /\ system_state.pace = "full"
    /\ api_usage = <<>>
    /\ \E i, j \in DOMAIN audit_log :
          /\ i < j
          /\ audit_log[i].agent = "anomaly-detector"
          /\ audit_log[i].action = "auto_pause"
          /\ audit_log[j].agent = "api"
          /\ audit_log[j].action = "set_pace"
          /\ \A k \in DOMAIN audit_log :
                k > j => /\ audit_log[k].blocked = 0
                         /\ audit_log[k].action # "set_pace"

\* C33: an auto-pause can be cleared: after an operator sets the pace back
\* to full following an auto-pause, a later checkAnomalies call made while
\* no new blocked audit entry and no new usage record has been added since
\* the reset reports no anomaly and leaves the pace at full.
C33_AutoPauseCanBeCleared ==
    [][(ResetSinceAutoPause /\ checkAnomalies)
          => /\ Len(checkAnomaliesReturn.anomalies) = 0
             /\ checkAnomaliesReturn.autoPaused = FALSE
             /\ system_state'.pace = "full"]_vars

\* the detector has paused the system again right after the operator's reset
C33_PausedAgain ==
    /\ system_state.pace = "pause"
    /\ Len(audit_log) >= 3
    /\ audit_log[Len(audit_log)].action = "auto_pause"
    /\ audit_log[Len(audit_log) - 1].action = "set_pace"
    /\ \E i \in 1..(Len(audit_log) - 2) : audit_log[i].action = "auto_pause"

----------------------------------------------------------------------------
(* Claims about live proposals, checked under SpecProposals *)

\* the proposals that are still open: pending or greenlit
Live(tbl) == {i \in DOMAIN tbl : tbl[i].status \in {"pending", "greenlit"}}

\* C34: deduplication keeps the store free of live duplicates: at any time
\* at most one proposal per pair (domain, lower-cased title) has status
\* pending or greenlit, under any sequence of createProposal and
\* resolveProposal calls.
C34_NoLiveDuplicates ==
    \A i, j \in Live(proposals) :
        (/\ proposals[i].domain = proposals[j].domain
         /\ LOWER(proposals[i].title) = LOWER(proposals[j].title)) => i = j

\* a resolved proposal was re-proposed and then resolved back to greenlit
C34_TwoLive ==
    /\ Len(proposals) = 2
    /\ proposals[1].domain = proposals[2].domain
    /\ LOWER(proposals[1].title) = LOWER(proposals[2].title)
    /\ proposals[1].status = "greenlit"
    /\ proposals[2].status = "pending"

----------------------------------------------------------------------------
(* Claims about the launch of the agent, checked under SpecLaunch *)

\* C35: there is no window between dispatch's permission check and the
\* launch of the external agent in which a change of pace or mode can
\* interleave: whenever dispatch launches the agent, isAllowed holds for the
\* mode and pace stored at that very moment, so no agent call is launched
\* while the pace is stop.
C35_LaunchIsPermitted ==
    [][\A p \in Calls :
          (pc[p] = "idle" /\ pc'[p] = "calling")
              => /\ isAllowed(system_state'.mode, task'[p].action, system_state'.pace)
                 /\ system_state'.pace # "stop"
                 /\ seen'[p].pace = system_state'.pace
                 /\ seen'[p].mode = system_state'.mode]_vars

\* a call was denied under stop, the pace went back to full, and a later
\* call has launched the agent
C35_Witness ==
    \E p, q \in Calls :
        /\ pc[q] = "returned"
        /\ result[q].allowed = FALSE
        /\ seen[q].pace = "stop"
        /\ pc[p] = "calling"
        /\ seen[p].pace = "full"

----------------------------------------------------------------------------
(* Claims about the sandbox route, checked under SpecSandbox *)

\* the runs that have handed proposal id to the agent: still awaiting it, or
\* answered with its outcome
Handed(id) ==
    {r \in Calls : /\ sandboxRuns[r].proposalId = id
                   /\ \/ sandboxRuns[r].pc = "dispatched"
                      \/ sandboxRuns[r].pc = "done" /\ pc[r] = "returned"
                                                    /\ result[r].allowed}

\* C36: a greenlit proposal is handed to the sandbox by at most one run at a
\* time and at most once with a reported outcome: two POST /sandbox/run
\* requests that overlap never dispatch the same proposal, and a proposal
\* whose sandbox run has finished is not picked again by a later run.
C36_HandedOnce ==
    \A id \in 1..MaxProposals : Cardinality(Handed(id)) <= 1

\* two overlapping runs are awaiting the agent for the same proposal
C36_SameProposalTwice ==
    /\ sandboxRuns[1].pc = "dispatched"
    /\ sandboxRuns[2].pc = "dispatched"
    /\ sandboxRuns[1].proposalId = sandboxRuns[2].proposalId

\* C37: POST /sandbox/run executes greenlit proposals oldest first: among
\* the proposals with status greenlit it picks the one created earliest.
C37_OldestFirst ==
    [][\A r \in Calls :
          (sandboxRuns[r].pc = "idle" /\ sandboxRuns'[r].pc = "picked")
              => \A i \in DOMAIN proposals :
                    proposals[i].status = "greenlit"
                        => proposals[sandboxRuns'[r].proposalId].created_at
                               <= proposals[i].created_at]_vars

\* the run has picked the proposal created last although an older one is greenlit
C37_NewestPicked ==
    \E r \in Calls :
        /\ sandboxRuns[r].pc = "picked"
        /\ sandboxRuns[r].proposalId = 2
        /\ proposals[1].status = "greenlit"
        /\ proposals[1].created_at < proposals[2].created_at

----------------------------------------------------------------------------
(* Claims about the running scheduler, checked under SpecScheduler *)

\* the mode is what the last tick's time asks for
ModeAgrees == (system_state.mode = "sleep") <=> tickQ.inside

\* C38: after every tick the mode agrees with the schedule: mode = sleep iff
\* the tick's time is inside the stored sleep window. A mode an operator set
\* by hand against the schedule is reverted by the next tick of the running
\* scheduler, which fires once at start and then every 60 seconds until the
\* server closes.
C38_ModeFollowsSchedule ==
    /\ []((tickQ.called /\ tickQ.fresh) => ModeAgrees)
    /\ [][/\ schedulerInterval.state = "none" /\ schedulerInterval'.state = "running"
              => tickQ'.fresh /\ schedulerInterval'.ticks = 1
          /\ schedulerInterval'.ticks > schedulerInterval.ticks /\ schedulerInterval.ticks > 0
              => /\ schedulerInterval.state = "running"
                 /\ schedulerInterval'.at = NextMinute(schedulerInterval.at)
                 /\ tickQ'.fresh
          /\ schedulerInterval.state = "cleared"
              => tickQ'.called = tickQ.called /\ schedulerInterval' = schedulerInterval
                 /\ (tickQ'.fresh => tickQ.fresh)]_vars
    /\ []((/\ schedulerInterval.state = "running"
           /\ schedulerInterval.ticks < MaxTicks
           /\ Len(audit_log) < MaxAudit)
              => <>(\/ tickQ.fresh /\ ModeAgrees
                    \/ schedulerInterval.state = "cleared"))

\* started at 11:59, the operator put the system to sleep by hand and the
\* tick of 12:00 has woken it again
C38_Witness ==
    /\ schedulerInterval.state = "running"
    /\ schedulerInterval.at = [hours |-> 12, minutes |-> 0]
    /\ schedulerInterval.ticks = 2
    /\ tickQ.fresh
    /\ tickQ.ret = TRUE
    /\ tickQ.inside = FALSE
    /\ system_state.mode = "awake"
    /\ Len(audit_log) = 1
    /\ IsSchedulerRow(audit_log[1])

----------------------------------------------------------------------------
(* Claims about the rotation among researched topics, checked under SpecRotation *)

\* when a topic that has entries was last researched
LastResearched(id) ==
    CHOOSE c \in {dossier_entries[i].created_at : i \in DOMAIN dossier_entries} :
        /\ \E i \in DOMAIN dossier_entries :
              dossier_entries[i].topic_id = id /\ dossier_entries[i].created_at = c
        /\ \A i \in DOMAIN dossier_entries :
              dossier_entries[i].topic_id = id => dossier_entries[i].created_at <= c

\* C39: when every configured topic has a dossier entry within the last 7
\* days, pickNextTopic returns the configured topic whose most recent entry
\* is the oldest, also when the dossier holds recent entries whose topic_id
\* is not a configured topic (such as strategy-memo or unknown).
C39_PicksLongestAgo ==
    (\A id \in Configured : ResearchedThisWeek(id)) =>
        /\ pickNextTopic(dossier_entries, now) # {}
        /\ \A topic \in pickNextTopic(dossier_entries, now) :
              /\ topic \in Configured
              /\ \A other \in Configured : LastResearched(topic) <= LastResearched(other)

\* a strategy memo is the oldest recent entry, and the pick was the topic
\* researched last
C39_NewestPicked ==
    /\ Len(dossier_entries) = 3
    /\ dossier_entries[1].topic_id = "strategy-memo"
    /\ dossier_entries[2].topic_id = "revenue-diversification"
    /\ dossier_entries[3].topic_id = "licensing-strategies"
    /\ dossier_entries[2].created_at < dossier_entries[3].created_at
    /\ httpQ.route = "pickNextTopic"
    /\ httpQ.arg = <<now>>
    /\ httpQ.body = <<"licensing-strategies">>

\* without entries of unconfigured topics the pick is the topic researched
\* longest ago
C39_ConfiguredOnly ==
    (/\ \A id \in Configured : ResearchedThisWeek(id)
     /\ \A i \in DOMAIN dossier_entries : dossier_entries[i].topic_id \in Configured) =>
        \A topic \in pickNextTopic(dossier_entries, now) :
            /\ topic \in Configured
            /\ \A other \in Configured : LastResearched(topic) <= LastResearched(other)

----------------------------------------------------------------------------
(* Claims about the watchdog, checked under SpecWatchdog *)

\* the failed checks at the end of the watchdog's history, counted back to
\* the last successful check or the last signal
RECURSIVE FailedInARow(_)
FailedInARow(n) ==
    IF n = 0 \/ watchdog.checks[n] = "ok" \/ n \in watchdog.signals
    THEN 0
    ELSE 1 + FailedInARow(n - 1)

\* the stop requests that reached the orchestrator
StopRows ==
    {i \in DOMAIN audit_log : audit_log[i].agent = "api" /\ audit_log[i].action = "set_pace"}

\* C40: the watchdog sends the stop signal (POST /pace with pace stop) only
\* after FAIL_THRESHOLD = 3 heartbeat checks in a row have failed: every
\* successful heartbeat resets the failure count to zero, the count is reset
\* to zero after the signal is sent, and fewer than three consecutive
\* failures never send it.
C40_StopAfterThreeFailures ==
    /\ \A k \in watchdog.signals :
          /\ k >= FAIL_THRESHOLD
          /\ \A j \in (k - FAIL_THRESHOLD + 1)..k : watchdog.checks[j] = "fail"
          /\ \A j \in (k - FAIL_THRESHOLD + 1)..(k - 1) : j \notin watchdog.signals
    /\ watchdog.fail_count = FailedInARow(Len(watchdog.checks))
    /\ watchdog.fail_count < FAIL_THRESHOLD
    /\ Cardinality(StopRows) <= Cardinality(watchdog.signals)

\* a failure, a recovery, then three failures in a row: the signal went out
\* after the fifth check and stopped the orchestrator
C40_Witness ==
    /\ watchdog.checks = <<"fail", "ok", "fail", "fail", "fail">>
    /\ watchdog.signals = {5}
    /\ watchdog.fail_count = 0
    /\ system_state.pace = "stop"
    /\ Cardinality(StopRows) = 1

====
